---- MODULE Spec2Model ----
(***************************************************************************)
(* Ride-sharing discrete-event simulation (src/A1): locations, drivers,    *)
(* riders, the FIFO Queue and PriorityQueue containers, the Dispatcher,    *)
(* the five event kinds with their do() transitions, the Monitor's         *)
(* activity log, and the engine loop that drains the event queue.          *)
(***************************************************************************)
EXTENDS Integers, Sequences, FiniteSets, TLC

VARIABLES
    drv,        \* Driver objects:  identifier -> fields
    rdr,        \* Rider objects:   identifier -> fields
    avail_dr,   \* Dispatcher.avail_dr._items (Queue of Driver)
    wait_rd,    \* Dispatcher.wait_rd._items  (Queue of Rider)
    events,     \* the engine's PriorityQueue._items (Queue of Event)
    initial,    \* seed events not yet added to the event queue
    activities, \* Monitor._activities
    notes,      \* history: every notify call, in call order
    done,       \* history: the events executed so far, in execution order,
                \* each with the number of events inserted before it ran
    ret,        \* value returned by the last do()
    dres,       \* dispatcher call made by the last step, with its result
    nord,       \* number of events added to the event queue so far
    older,      \* history: <<a, b>> when a and b are held by the same pool
                \* and a joined it before b did
    cres,       \* last call made on a container directly, with its outcome
    held,       \* history: the items a Queue holds, each with the ordinal
                \* of the add that put it there
    pc          \* "load", "run" (engine), "unit" (dispatcher driven directly)
                \* "container" (containers driven directly) or "location"
                \* (manhattan_distance called directly)

vars == <<drv, rdr, avail_dr, wait_rd, events, initial, activities, notes,
          done, ret, dres, nord, older, cres, held, pc>>

-----------------------------------------------------------------------------
(* Bounds of the model *)

MaxSpeed == 2
MaxPatience == 1
MaxTime == 1
MaxAdds == 3
MaxCoord == 1

DriverSeq == <<"d1", "d2", "d3">>
RiderSeq == <<"r1", "r2">>

Range(s) == {s[i] : i \in 1..Len(s)}

DriverIds == Range(DriverSeq)
RiderIds == Range(RiderSeq)

-----------------------------------------------------------------------------
(* location.py *)

Location(row, column) == [row |-> row, column |-> column]

\* the value None where a Location is expected (Driver.destination)
NoLoc == [row |-> -1, column |-> -1]

Locs == {Location(0, 0), Location(0, 1), Location(1, 2)}
Dests == {Location(1, 2)}

LocationEq(a, b) == a.row = b.row /\ a.column = b.column

\* (x ** 2) ** 0.5 for an integer x
SqrtOfSquare(x) == CHOOSE k \in 0..(x * x) : k * k = x * x

manhattan_distance(origin, destination) ==
    SqrtOfSquare(destination.row - origin.row)
        + SqrtOfSquare(destination.column - origin.column)

-----------------------------------------------------------------------------
(* rider.py *)

WAITING == "waiting"
CANCELLED == "cancelled"
SATISFIED == "satisfied"

Rider(origin, destination, patience) ==
    [origin |-> origin, destination |-> destination, patience |-> patience,
     status |-> WAITING]

-----------------------------------------------------------------------------
(* driver.py *)

Driver(location, speed) ==
    [location |-> location, speed |-> speed, is_idle |-> TRUE,
     destination |-> NoLoc]

\* variant: halves go up
PyRound_half_up(n, s) ==
    LET q == n \div s
        r2 == 2 * (n % s)
    IN  IF r2 < s THEN q ELSE q + 1

\* Python 3 round(n / s) for integers n >= 0, s > 0: halves go to even
PyRound(n, s) ==
    LET q == n \div s
        r2 == 2 * (n % s)
    IN  IF r2 < s THEN q
        ELSE IF r2 > s THEN q + 1
        ELSE IF q % 2 = 0 THEN q ELSE q + 1

\* variant: the sign of the travel time is wrong
get_travel_time_neg(d, destination) ==
    0 - PyRound(manhattan_distance(d.location, destination), d.speed)

get_travel_time(d, destination) ==
    PyRound(manhattan_distance(d.location, destination), d.speed)

\* variant: the idle flag is left as it was
start_drive_idle(d, location) == [d EXCEPT !.destination = location]

\* variant: the destination is left as it was
start_drive_blind(d, location) == [d EXCEPT !.is_idle = FALSE]

\* start_drive: the driver after the call; the call returns
\* get_travel_time(location), which does not depend on the fields it sets
start_drive(d, location) ==
    [d EXCEPT !.is_idle = FALSE, !.destination = location]

\* variant: the destination is kept
end_drive_keep(d) == [d EXCEPT !.is_idle = TRUE, !.location = d.destination]

end_drive(d) ==
    [d EXCEPT !.is_idle = TRUE, !.location = d.destination,
              !.destination = NoLoc]

\* start_ride: the driver after the call (the rider becomes SATISFIED)
start_ride(d, r) == [d EXCEPT !.destination = r.destination]

\* variant: the driver is left where the ride started
end_ride_stay(d) == [d EXCEPT !.is_idle = TRUE, !.destination = NoLoc]

\* variant: the destination of the ride is kept
end_ride_keep(d) == [d EXCEPT !.is_idle = TRUE, !.location = d.destination]

end_ride(d) ==
    [d EXCEPT !.is_idle = TRUE, !.location = d.destination,
              !.destination = NoLoc]

-----------------------------------------------------------------------------
(* container.py: Queue *)

Queue_add(items, item) == Append(items, item)

Queue_is_empty(items) == Len(items) = 0

Queue_length(items) == Len(items)

\* precondition (assert): not empty
Queue_first(items) == items[1]

\* precondition (assert): not empty; the returned item is Queue_first(items)
Queue_remove(items) == SubSeq(items, 2, Len(items))

Contains(items, item) == \E i \in 1..Len(items) : items[i] = item

\* list.remove(item): delete the first element equal to item
\* (raises ValueError when there is none; callers check Contains)
Queue_spcl_remove(items, item) ==
    IF Contains(items, item)
    THEN LET i == CHOOSE j \in 1..Len(items) :
                     /\ items[j] = item
                     /\ \A k \in 1..(j - 1) : items[k] # item
         IN  SubSeq(items, 1, i - 1) \o SubSeq(items, i + 1, Len(items))
    ELSE items

-----------------------------------------------------------------------------
(* event.py: Event and its ordering; container.py: PriorityQueue *)

None == "none"

\* ord is history: the ordinal of the event's insertion into the event queue
\* (0 while the event has not been inserted)
Event(timestamp, kind, rider, driver) ==
    [timestamp |-> timestamp, kind |-> kind, rider |-> rider,
     driver |-> driver, ord |-> 0]

RiderRequest(timestamp, rider) == Event(timestamp, "RiderRequest", rider, None)
DriverRequest(timestamp, driver) == Event(timestamp, "DriverRequest", None, driver)
Cancellation(timestamp, rider) == Event(timestamp, "Cancellation", rider, None)
Pickup(timestamp, rider, driver) == Event(timestamp, "Pickup", rider, driver)
Dropoff(timestamp, rider, driver) == Event(timestamp, "Dropoff", rider, driver)

Event_le(a, b) == a.timestamp <= b.timestamp

\* variant: the loop stops at the first item that is not strictly smaller
RECURSIVE PQ_add_index_strict(_, _, _)
PQ_add_index_strict(items, item, i) ==
    IF i < Len(items) /\ items[i + 1].timestamp < item.timestamp
    THEN PQ_add_index_strict(items, item, i + 1)
    ELSE i

\* the while loop of PriorityQueue.add, from index i (0-based)
RECURSIVE PQ_add_index(_, _, _)
PQ_add_index(items, item, i) ==
    IF i < Len(items) /\ Event_le(items[i + 1], item)
    THEN PQ_add_index(items, item, i + 1)
    ELSE i

\* variant: the new item goes to the front
PQ_add_front(items, item) == <<item>> \o items

PQ_add(items, item) ==
    LET i == PQ_add_index(items, item, 0)
    IN  SubSeq(items, 1, i) \o <<item>> \o SubSeq(items, i + 1, Len(items))

PQ_is_empty(items) == Len(items) = 0

\* precondition (assert): not empty; the returned item is items[1]
PQ_remove(items) == SubSeq(items, 2, Len(items))

-----------------------------------------------------------------------------
(* container.py: the outcome of one call on a container: the items it     *)
(* holds afterwards, the value returned (a sequence of length 0 or 1) and *)
(* the exception raised ("" when the call returns)                        *)

Return(items, res) == [items |-> items, res |-> res, err |-> ""]

Raise(items, err) == [items |-> items, res |-> <<>>, err |-> err]

\* a call on an empty container fails in the assert statement; when the
\* assert statements are compiled out it fails in the list operation
EmptyErrors == {"AssertionError", "IndexError"}

\* variant: no ordering, the item goes to the back
PQ_add_back(items, item) == Return(Append(items, item), <<>>)

PQ_call_add(items, item) == Return(PQ_add(items, item), <<>>)

\* variant: on an empty queue the call returns None
PQ_call_remove_none(items, err) ==
    IF PQ_is_empty(items) THEN Return(items, <<None>>)
    ELSE Return(PQ_remove(items), <<items[1]>>)

PQ_call_remove(items, err) ==
    IF PQ_is_empty(items) THEN Raise(items, err)
    ELSE Return(PQ_remove(items), <<items[1]>>)

Queue_call_add(items, item) == Return(Queue_add(items, item), <<>>)

Queue_call_first(items, err) ==
    IF Queue_is_empty(items) THEN Raise(items, err)
    ELSE Return(items, <<Queue_first(items)>>)

Queue_call_remove(items, err) ==
    IF Queue_is_empty(items) THEN Raise(items, err)
    ELSE Return(Queue_remove(items), <<Queue_first(items)>>)

Queue_call_length(items) == Return(items, <<Queue_length(items)>>)

\* variant: the last element equal to item is deleted
Queue_call_spcl_remove_last(items, item) ==
    IF Contains(items, item)
    THEN LET i == CHOOSE j \in 1..Len(items) :
                     /\ items[j] = item
                     /\ \A k \in (j + 1)..Len(items) : items[k] # item
         IN  Return(SubSeq(items, 1, i - 1) \o SubSeq(items, i + 1, Len(items)),
                    <<>>)
    ELSE Raise(items, "ValueError")

\* list.remove raises ValueError when no element equals item
Queue_call_spcl_remove(items, item) ==
    IF Contains(items, item) THEN Return(Queue_spcl_remove(items, item), <<>>)
    ELSE Raise(items, "ValueError")

\* the record kept in cres of a call op(arg) on a container of class cls
Result(cls, op, arg, out) ==
    [cls |-> cls, op |-> op, arg |-> arg, res |-> out.res, err |-> out.err]

NoResult == Result("", "", <<>>, Return(<<>>, <<>>))

-----------------------------------------------------------------------------
(* dispatcher.py *)

\* variant: a later driver replaces fastest_dr when it is at least as fast
RECURSIVE fastest_loop_ties(_, _, _, _)
fastest_loop_ties(avail, origin, i, fastest_dr) ==
    IF i > Len(avail) THEN fastest_dr
    ELSE IF get_travel_time(drv[avail[i]], origin)
              <= get_travel_time(drv[fastest_dr], origin)
         THEN fastest_loop_ties(avail, origin, i + 1, avail[i])
         ELSE fastest_loop_ties(avail, origin, i + 1, fastest_dr)

\* the for loop of request_driver over avail[i..], carrying fastest_dr
RECURSIVE fastest_loop(_, _, _, _)
fastest_loop(avail, origin, i, fastest_dr) ==
    IF i > Len(avail) THEN fastest_dr
    ELSE IF get_travel_time(drv[avail[i]], origin)
              < get_travel_time(drv[fastest_dr], origin)
         THEN fastest_loop(avail, origin, i + 1, avail[i])
         ELSE fastest_loop(avail, origin, i + 1, fastest_dr)

\* variant: with no driver available the rider jumps the waiting list, and
\* with a single driver the rider is put on the waiting list as well
request_driver_jump(avail, wait, rider) ==
    IF Queue_is_empty(avail)
    THEN [avail_dr |-> avail, wait_rd |-> <<rider>> \o wait, res |-> None]
    ELSE [avail_dr |-> Queue_remove(avail), wait_rd |-> Queue_add(wait, rider),
          res |-> Queue_first(avail)]

\* variant: the driver at the front of the pool is returned
request_driver_front(avail, wait, rider) ==
    IF Queue_is_empty(avail)
    THEN [avail_dr |-> avail, wait_rd |-> Queue_add(wait, rider), res |-> None]
    ELSE [avail_dr |-> Queue_remove(avail), wait_rd |-> wait,
          res |-> Queue_first(avail)]

\* request_driver(rider): the two pools after the call and the result
request_driver(avail, wait, rider) ==
    IF Queue_is_empty(avail)
    THEN [avail_dr |-> avail, wait_rd |-> Queue_add(wait, rider), res |-> None]
    ELSE IF Queue_length(avail) = 1
    THEN [avail_dr |-> Queue_remove(avail), wait_rd |-> wait,
          res |-> Queue_first(avail)]
    ELSE LET fastest_dr ==
                 fastest_loop(avail, rdr[rider].origin, 1, Queue_first(avail))
         IN  [avail_dr |-> Queue_spcl_remove(avail, fastest_dr),
              wait_rd |-> wait, res |-> fastest_dr]

\* variant: the most recently enqueued rider is returned
request_rider_last(avail, wait, driver) ==
    IF Queue_is_empty(wait)
    THEN [avail_dr |-> Queue_add(avail, driver), wait_rd |-> wait, res |-> None]
    ELSE [avail_dr |-> avail, wait_rd |-> SubSeq(wait, 1, Len(wait) - 1),
          res |-> wait[Len(wait)]]

\* variant: the driver is registered and gets no rider
request_rider_enqueue(avail, wait, driver) ==
    [avail_dr |-> Queue_add(avail, driver), wait_rd |-> wait, res |-> None]

\* variant: the rider handed to the driver stays on the waiting list
request_rider_keep(avail, wait, driver) ==
    IF Queue_is_empty(wait)
    THEN [avail_dr |-> Queue_add(avail, driver), wait_rd |-> wait,
          res |-> None]
    ELSE [avail_dr |-> avail, wait_rd |-> wait, res |-> Queue_first(wait)]

\* variant: with no rider waiting the driver is not registered
request_rider_forget(avail, wait, driver) ==
    IF Queue_is_empty(wait)
    THEN [avail_dr |-> avail, wait_rd |-> wait, res |-> None]
    ELSE [avail_dr |-> avail, wait_rd |-> Queue_remove(wait),
          res |-> Queue_first(wait)]

\* request_rider(driver): the two pools after the call and the result
request_rider(avail, wait, driver) ==
    IF Queue_is_empty(wait)
    THEN [avail_dr |-> Queue_add(avail, driver), wait_rd |-> wait, res |-> None]
    ELSE [avail_dr |-> avail, wait_rd |-> Queue_remove(wait),
          res |-> Queue_first(wait)]

\* variant: the rider at the front of the waiting list is removed
cancel_ride_front(avail, wait, rider) ==
    [avail_dr |-> avail, wait_rd |-> Queue_remove(wait), res |-> None]

\* cancel_ride(rider): the result is None, or the exception that spcl_remove
\* raises when the rider is not on the waiting list
cancel_ride(avail, wait, rider) ==
    LET out == Queue_call_spcl_remove(wait, rider)
    IN  [avail_dr |-> avail, wait_rd |-> out.items,
         res |-> IF out.err = "" THEN None ELSE out.err]

\* a call the dispatcher makes on one of its queues: the method, the items
\* the queue holds when it is called, and the argument
QueueUse(op, items, arg) == [op |-> op, items |-> items, arg |-> arg]

\* variant: first is called before the pool is tested for emptiness
request_driver_calls_first(avail, wait, rider) ==
    <<QueueUse("first", avail, None)>>

\* the remove, first and spcl_remove calls that request_driver(rider) makes
request_driver_calls(avail, wait, rider) ==
    IF Queue_is_empty(avail) THEN <<>>
    ELSE IF Queue_length(avail) = 1
    THEN <<QueueUse("remove", avail, None)>>
    ELSE <<QueueUse("first", avail, None),
           QueueUse("spcl_remove", avail,
                    fastest_loop(avail, rdr[rider].origin, 1,
                                 Queue_first(avail)))>>

\* the remove call that request_rider(driver) makes
request_rider_calls(avail, wait, driver) ==
    IF Queue_is_empty(wait) THEN <<>>
    ELSE <<QueueUse("remove", wait, None)>>

\* history: a dispatcher call, the pools it found and its result
Call(op, arg, avail, wait, res) ==
    [op |-> op, arg |-> arg, avail_dr |-> avail, wait_rd |-> wait, res |-> res]

NoCall == Call("none", None, <<>>, <<>>, None)

-----------------------------------------------------------------------------
(* monitor.py *)

RIDER == "rider"
DRIVER == "driver"
REQUEST == "request"
CANCEL == "cancel"
PICKUP == "pickup"
DROPOFF == "dropoff"

Activity(timestamp, description, identifier, location) ==
    [description |-> description, time |-> timestamp, id |-> identifier,
     location |-> location]

\* one notify call, as recorded in the history variable notes
Note(timestamp, category, description, identifier, location) ==
    [time |-> timestamp, category |-> category, description |-> description,
     id |-> identifier, location |-> location]

\* variant: the record is put at the front of the log
notify_front(acts, n) ==
    LET log == IF n.id \in DOMAIN acts[n.category]
               THEN acts[n.category]
               ELSE acts[n.category] @@ (n.id :> <<>>)
    IN  [acts EXCEPT ![n.category] =
            [log EXCEPT ![n.id] =
                <<Activity(n.time, n.description, n.id, n.location)>> \o @]]

\* Monitor.notify applied to the _activities dictionary acts
notify(acts, n) ==
    LET log == IF n.id \in DOMAIN acts[n.category]
               THEN acts[n.category]
               ELSE acts[n.category] @@ (n.id :> <<>>)
    IN  [acts EXCEPT ![n.category] =
            [log EXCEPT ![n.id] =
                Append(@, Activity(n.time, n.description, n.id, n.location))]]

RECURSIVE notify_all(_, _)
notify_all(acts, ns) ==
    IF ns = <<>> THEN acts ELSE notify_all(notify(acts, Head(ns)), Tail(ns))

-----------------------------------------------------------------------------
(* event.py: the do() method of each event kind, evaluated in the current  *)
(* state.  The result gives the actors and pools after the call, the       *)
(* notify calls made (in call order), the returned value and the           *)
(* dispatcher call made.                                                   *)

List(evs) == [isNone |-> FALSE, evs |-> evs]

\* a do() that ends without a return statement returns None
NoList == [isNone |-> TRUE, evs |-> <<>>]

\* Driver.start_drive's return value
start_drive_time(d, location) ==
    get_travel_time(start_drive(d, location), location)

\* Driver.start_ride's return value
start_ride_time(d, r) == get_travel_time(start_ride(d, r), r.destination)

\* variant: the Cancellation is scheduled only when no driver was found
RiderRequest_do_either(ev) ==
    LET rider == rdr[ev.rider]
        d == request_driver(avail_dr, wait_rd, ev.rider)
        cancellation == Cancellation(ev.timestamp + rider.patience, ev.rider)
    IN  [drv |-> IF d.res # None
                 THEN [drv EXCEPT ![d.res] = start_drive(@, rider.origin)]
                 ELSE drv,
         rdr |-> rdr,
         avail_dr |-> d.avail_dr,
         wait_rd |-> d.wait_rd,
         notes |-> <<Note(ev.timestamp, RIDER, REQUEST, ev.rider, rider.origin)>>,
         ret |-> IF d.res # None
                 THEN List(<<Pickup(ev.timestamp
                                      + start_drive_time(drv[d.res], rider.origin),
                                    ev.rider, d.res)>>)
                 ELSE List(<<cancellation>>),
         dres |-> Call("request_driver", ev.rider, avail_dr, wait_rd, d.res)]

\* variant: the request is not recorded
RiderRequest_do_silent(ev) ==
    LET rider == rdr[ev.rider]
        d == request_driver(avail_dr, wait_rd, ev.rider)
        cancellation == Cancellation(ev.timestamp + rider.patience, ev.rider)
    IN  [drv |-> IF d.res # None
                 THEN [drv EXCEPT ![d.res] = start_drive(@, rider.origin)]
                 ELSE drv,
         rdr |-> rdr,
         avail_dr |-> d.avail_dr,
         wait_rd |-> d.wait_rd,
         notes |-> <<>>,
         ret |-> IF d.res # None
                 THEN List(<<Pickup(ev.timestamp
                                      + start_drive_time(drv[d.res], rider.origin),
                                    ev.rider, d.res),
                             cancellation>>)
                 ELSE List(<<cancellation>>),
         dres |-> Call("request_driver", ev.rider, avail_dr, wait_rd, d.res)]

\* variant: the Cancellation is returned before the Pickup
RiderRequest_do_cancel_first(ev) ==
    LET rider == rdr[ev.rider]
        d == request_driver(avail_dr, wait_rd, ev.rider)
        cancellation == Cancellation(ev.timestamp + rider.patience, ev.rider)
    IN  [drv |-> IF d.res # None
                 THEN [drv EXCEPT ![d.res] = start_drive(@, rider.origin)]
                 ELSE drv,
         rdr |-> rdr,
         avail_dr |-> d.avail_dr,
         wait_rd |-> d.wait_rd,
         notes |-> <<Note(ev.timestamp, RIDER, REQUEST, ev.rider, rider.origin)>>,
         ret |-> IF d.res # None
                 THEN List(<<cancellation,
                             Pickup(ev.timestamp
                                      + start_drive_time(drv[d.res], rider.origin),
                                    ev.rider, d.res)>>)
                 ELSE List(<<cancellation>>),
         dres |-> Call("request_driver", ev.rider, avail_dr, wait_rd, d.res)]

RiderRequest_do(ev) ==
    LET rider == rdr[ev.rider]
        d == request_driver(avail_dr, wait_rd, ev.rider)
        cancellation == Cancellation(ev.timestamp + rider.patience, ev.rider)
    IN  [drv |-> IF d.res # None
                 THEN [drv EXCEPT ![d.res] = start_drive(@, rider.origin)]
                 ELSE drv,
         rdr |-> rdr,
         avail_dr |-> d.avail_dr,
         wait_rd |-> d.wait_rd,
         notes |-> <<Note(ev.timestamp, RIDER, REQUEST, ev.rider, rider.origin)>>,
         ret |-> IF d.res # None
                 THEN List(<<Pickup(ev.timestamp
                                      + start_drive_time(drv[d.res], rider.origin),
                                    ev.rider, d.res),
                             cancellation>>)
                 ELSE List(<<cancellation>>),
         dres |-> Call("request_driver", ev.rider, avail_dr, wait_rd, d.res)]

\* variant: the Pickup is scheduled at the time of the request
DriverRequest_do_now(ev) ==
    LET driver == drv[ev.driver]
        d == request_rider(avail_dr, wait_rd, ev.driver)
    IN  [drv |-> IF d.res # None
                 THEN [drv EXCEPT ![ev.driver] = start_drive(@, rdr[d.res].origin)]
                 ELSE drv,
         rdr |-> rdr,
         avail_dr |-> d.avail_dr,
         wait_rd |-> d.wait_rd,
         notes |-> <<Note(ev.timestamp, DRIVER, REQUEST, ev.driver,
                          driver.location)>>,
         ret |-> IF d.res # None
                 THEN List(<<Pickup(ev.timestamp, d.res, ev.driver)>>)
                 ELSE List(<<>>),
         dres |-> Call("request_rider", ev.driver, avail_dr, wait_rd, d.res)]

\* variant: the request is not recorded
DriverRequest_do_silent(ev) ==
    LET driver == drv[ev.driver]
        d == request_rider(avail_dr, wait_rd, ev.driver)
    IN  [drv |-> IF d.res # None
                 THEN [drv EXCEPT ![ev.driver] = start_drive(@, rdr[d.res].origin)]
                 ELSE drv,
         rdr |-> rdr,
         avail_dr |-> d.avail_dr,
         wait_rd |-> d.wait_rd,
         notes |-> <<>>,
         ret |-> IF d.res # None
                 THEN List(<<Pickup(ev.timestamp
                                      + start_drive_time(driver, rdr[d.res].origin),
                                    d.res, ev.driver)>>)
                 ELSE List(<<>>),
         dres |-> Call("request_rider", ev.driver, avail_dr, wait_rd, d.res)]

DriverRequest_do(ev) ==
    LET driver == drv[ev.driver]
        d == request_rider(avail_dr, wait_rd, ev.driver)
    IN  [drv |-> IF d.res # None
                 THEN [drv EXCEPT ![ev.driver] = start_drive(@, rdr[d.res].origin)]
                 ELSE drv,
         rdr |-> rdr,
         avail_dr |-> d.avail_dr,
         wait_rd |-> d.wait_rd,
         notes |-> <<Note(ev.timestamp, DRIVER, REQUEST, ev.driver,
                          driver.location)>>,
         ret |-> IF d.res # None
                 THEN List(<<Pickup(ev.timestamp
                                      + start_drive_time(driver, rdr[d.res].origin),
                                    d.res, ev.driver)>>)
                 ELSE List(<<>>),
         dres |-> Call("request_rider", ev.driver, avail_dr, wait_rd, d.res)]

\* variant: the status is left as it is
Cancellation_status_never(status) == status

\* variant: the status is set to CANCELLED without looking at it
Cancellation_status_always(status) == CANCELLED

\* the status assignment of Cancellation.do
Cancellation_status(status) == IF status = WAITING THEN CANCELLED ELSE status

\* variant: the monitor is notified only when the rider was still waiting
Cancellation_do_quiet(ev) ==
    [drv |-> drv,
     rdr |-> [rdr EXCEPT ![ev.rider].status = Cancellation_status(@)],
     avail_dr |-> avail_dr,
     wait_rd |-> wait_rd,
     notes |-> IF rdr[ev.rider].status = WAITING
               THEN <<Note(ev.timestamp, RIDER, CANCEL, ev.rider,
                           rdr[ev.rider].origin)>>
               ELSE <<>>,
     ret |-> NoList,
     dres |-> NoCall]

Cancellation_do(ev) ==
    [drv |-> drv,
     rdr |-> [rdr EXCEPT ![ev.rider].status = Cancellation_status(@)],
     avail_dr |-> avail_dr,
     wait_rd |-> wait_rd,
     notes |-> <<Note(ev.timestamp, RIDER, CANCEL, ev.rider,
                      rdr[ev.rider].origin)>>,
     ret |-> NoList,
     dres |-> NoCall]

\* variant: a driver whose rider has cancelled gets no new event
Pickup_events_stranded(ev, arrived) ==
    IF rdr[ev.rider].status = WAITING
    THEN <<Dropoff(ev.timestamp + start_ride_time(arrived, rdr[ev.rider]),
                   ev.rider, ev.driver)>>
    ELSE <<>>

\* variant: the ride time is computed before the driver has arrived at the
\* rider's origin
Pickup_events_early(ev, arrived) ==
    IF rdr[ev.rider].status = WAITING
    THEN <<Dropoff(ev.timestamp
                     + start_ride_time(drv[ev.driver], rdr[ev.rider]),
                   ev.rider, ev.driver)>>
    ELSE IF rdr[ev.rider].status = CANCELLED
    THEN <<DriverRequest(ev.timestamp, ev.driver)>>
    ELSE <<>>

\* the events Pickup.do returns, for the driver as end_drive left it
Pickup_events(ev, arrived) ==
    IF rdr[ev.rider].status = WAITING
    THEN <<Dropoff(ev.timestamp + start_ride_time(arrived, rdr[ev.rider]),
                   ev.rider, ev.driver)>>
    ELSE IF rdr[ev.rider].status = CANCELLED
    THEN <<DriverRequest(ev.timestamp, ev.driver)>>
    ELSE <<>>

\* variant: the rider's record is made before the driver's
Pickup_do_rider_first(ev) ==
    LET rider == rdr[ev.rider]
        arrived == end_drive(drv[ev.driver])
    IN  [drv |-> IF rider.status = WAITING
                 THEN [drv EXCEPT ![ev.driver] = start_ride(arrived, rider)]
                 ELSE [drv EXCEPT ![ev.driver] = arrived],
         rdr |-> IF rider.status = WAITING
                 THEN [rdr EXCEPT ![ev.rider].status = SATISFIED]
                 ELSE rdr,
         avail_dr |-> avail_dr,
         wait_rd |-> wait_rd,
         notes |-> <<Note(ev.timestamp, RIDER, PICKUP, ev.rider, rider.origin),
                     Note(ev.timestamp, DRIVER, PICKUP, ev.driver,
                          drv[ev.driver].destination)>>,
         ret |-> List(Pickup_events(ev, arrived)),
         dres |-> NoCall]

Pickup_do(ev) ==
    LET rider == rdr[ev.rider]
        arrived == end_drive(drv[ev.driver])
    IN  [drv |-> IF rider.status = WAITING
                 THEN [drv EXCEPT ![ev.driver] = start_ride(arrived, rider)]
                 ELSE [drv EXCEPT ![ev.driver] = arrived],
         rdr |-> IF rider.status = WAITING
                 THEN [rdr EXCEPT ![ev.rider].status = SATISFIED]
                 ELSE rdr,
         avail_dr |-> avail_dr,
         wait_rd |-> wait_rd,
         notes |-> <<Note(ev.timestamp, DRIVER, PICKUP, ev.driver,
                          drv[ev.driver].destination),
                     Note(ev.timestamp, RIDER, PICKUP, ev.rider, rider.origin)>>,
         ret |-> List(Pickup_events(ev, arrived)),
         dres |-> NoCall]

\* variant: the driver issues no new request after the ride
Dropoff_do_park(ev) ==
    [drv |-> [drv EXCEPT ![ev.driver] = end_ride(@)],
     rdr |-> rdr,
     avail_dr |-> avail_dr,
     wait_rd |-> wait_rd,
     notes |-> <<Note(ev.timestamp, DRIVER, DROPOFF, ev.driver,
                      drv[ev.driver].destination)>>,
     ret |-> List(<<>>),
     dres |-> NoCall]

\* variant: two requests are issued after the ride
Dropoff_do_twice(ev) ==
    [drv |-> [drv EXCEPT ![ev.driver] = end_ride(@)],
     rdr |-> rdr,
     avail_dr |-> avail_dr,
     wait_rd |-> wait_rd,
     notes |-> <<Note(ev.timestamp, DRIVER, DROPOFF, ev.driver,
                      drv[ev.driver].destination)>>,
     ret |-> List(<<DriverRequest(ev.timestamp, ev.driver),
                    DriverRequest(ev.timestamp, ev.driver)>>),
     dres |-> NoCall]

Dropoff_do(ev) ==
    [drv |-> [drv EXCEPT ![ev.driver] = end_ride(@)],
     rdr |-> rdr,
     avail_dr |-> avail_dr,
     wait_rd |-> wait_rd,
     notes |-> <<Note(ev.timestamp, DRIVER, DROPOFF, ev.driver,
                      drv[ev.driver].destination)>>,
     ret |-> List(<<DriverRequest(ev.timestamp, ev.driver)>>),
     dres |-> NoCall]

-----------------------------------------------------------------------------
\* the history variable older once the pools have become avail and wait:
\* members that left lose their pairs, a member that joined is younger than
\* every member its pool already held
older_after(avail, wait) ==
    LET before == Range(avail_dr) \cup Range(wait_rd)
        after == Range(avail) \cup Range(wait)
        stayed == before \cap after
        joined == after \ before
    IN  {p \in older : p[1] \in stayed /\ p[2] \in stayed}
            \cup {p \in stayed \X joined :
                    \/ p[1] \in Range(avail) /\ p[2] \in Range(avail)
                    \/ p[1] \in Range(wait) /\ p[2] \in Range(wait)}

-----------------------------------------------------------------------------
(* The simulation engine: add every initial event to the event queue, then *)
(* while the queue is not empty remove the first event, call its do() and  *)
(* add every returned event, in returned order.                            *)

\* add the events evs, in order, giving them the ordinals n + 1, n + 2, ...
RECURSIVE add_all(_, _, _)
add_all(items, evs, n) ==
    IF evs = <<>> THEN items
    ELSE add_all(PQ_add(items, [Head(evs) EXCEPT !.ord = n + 1]),
                 Tail(evs), n + 1)

Load ==
    /\ pc = "load"
    /\ initial # <<>>
    /\ events' = add_all(events, <<Head(initial)>>, nord)
    /\ nord' = nord + 1
    /\ initial' = Tail(initial)
    /\ UNCHANGED <<drv, rdr, avail_dr, wait_rd, activities, notes, done, ret,
                   dres, older, cres, held, pc>>

StartRun ==
    /\ pc = "load"
    /\ initial = <<>>
    /\ pc' = "run"
    /\ UNCHANGED <<drv, rdr, avail_dr, wait_rd, events, initial, activities,
                   notes, done, ret, dres, nord, older, cres, held>>

\* one iteration of the loop, for the first event of the queue and the
\* result out of its do()
Iterate(out) ==
    /\ drv' = out.drv
    /\ rdr' = out.rdr
    /\ avail_dr' = out.avail_dr
    /\ wait_rd' = out.wait_rd
    /\ activities' = notify_all(activities, out.notes)
    /\ notes' = notes \o out.notes
    /\ done' = Append(done, [ev |-> Head(events), seen |-> nord])
    /\ older' = older_after(out.avail_dr, out.wait_rd)
    /\ ret' = out.ret
    /\ dres' = out.dres
    /\ events' = add_all(PQ_remove(events), out.ret.evs, nord)
    /\ nord' = nord + Len(out.ret.evs)
    /\ UNCHANGED <<initial, cres, held, pc>>

Running(kind) ==
    /\ pc = "run"
    /\ ~PQ_is_empty(events)
    /\ Head(events).kind = kind

StepRiderRequest ==
    Running("RiderRequest") /\ Iterate(RiderRequest_do(Head(events)))

StepDriverRequest ==
    Running("DriverRequest") /\ Iterate(DriverRequest_do(Head(events)))

StepCancellation ==
    Running("Cancellation") /\ Iterate(Cancellation_do(Head(events)))

StepPickup ==
    Running("Pickup") /\ Iterate(Pickup_do(Head(events)))

StepDropoff ==
    Running("Dropoff") /\ Iterate(Dropoff_do(Head(events)))

-----------------------------------------------------------------------------
(* event.py create_event_list: the seed events and the actors they create *)

SeedSlots == 1..Len(DriverSeq)

CountKind(k, kind, i) == Cardinality({j \in 1..i : k[j] = kind})

\* the kinds of the seed lines: "D" a DriverRequest line, "R" a RiderRequest
SeedKinds ==
    {k \in [SeedSlots -> {"D", "R"}] :
        CountKind(k, "R", Len(DriverSeq)) <= Len(RiderSeq)}

\* identifiers are unique: the n-th driver line names DriverSeq[n]
SeedActor(k, i) ==
    IF k[i] = "D" THEN DriverSeq[CountKind(k, "D", i)]
    ELSE RiderSeq[CountKind(k, "R", i)]

SeedEvent(k, ts, i) ==
    IF k[i] = "D" THEN DriverRequest(ts[i], SeedActor(k, i))
    ELSE RiderRequest(ts[i], SeedActor(k, i))

DriverSeeds == [location : Locs, speed : 1..MaxSpeed]
RiderSeeds == [origin : Locs, destination : Dests, patience : 0..MaxPatience]

Init ==
    \E k \in SeedKinds, ts \in [SeedSlots -> 0..MaxTime] :
        LET ds == {SeedActor(k, i) : i \in {j \in SeedSlots : k[j] = "D"}}
            rs == {SeedActor(k, i) : i \in {j \in SeedSlots : k[j] = "R"}}
        IN  \E d0 \in [ds -> DriverSeeds], r0 \in [rs -> RiderSeeds] :
                /\ drv = [d \in ds |-> Driver(d0[d].location, d0[d].speed)]
                /\ rdr = [r \in rs |-> Rider(r0[r].origin, r0[r].destination,
                                             r0[r].patience)]
                /\ initial = [i \in SeedSlots |-> SeedEvent(k, ts, i)]
                /\ avail_dr = <<>>
                /\ wait_rd = <<>>
                /\ events = <<>>
                /\ activities = [rider |-> <<>>, driver |-> <<>>]
                /\ notes = <<>>
                /\ done = <<>>
                /\ ret = List(<<>>)
                /\ dres = NoCall
                /\ nord = 0
                /\ older = {}
                /\ cres = NoResult
                /\ held = {}
                /\ pc = "load"

Next ==
    \/ Load
    \/ StartRun
    \/ StepRiderRequest
    \/ StepDriverRequest
    \/ StepCancellation
    \/ StepPickup
    \/ StepDropoff

Spec == Init /\ [][Next]_vars

\* a seed file of two lines, one driver and one rider, in either order
InitPair ==
    \E first \in {"D", "R"}, td \in 0..MaxTime, tr \in 0..MaxTime,
       d0 \in DriverSeeds, r0 \in RiderSeeds :
        LET d == DriverSeq[1]
            r == RiderSeq[1]
        IN  /\ drv = (d :> Driver(d0.location, d0.speed))
            /\ rdr = (r :> Rider(r0.origin, r0.destination, r0.patience))
            /\ initial = IF first = "D"
                         THEN <<DriverRequest(td, d), RiderRequest(tr, r)>>
                         ELSE <<RiderRequest(tr, r), DriverRequest(td, d)>>
            /\ avail_dr = <<>>
            /\ wait_rd = <<>>
            /\ events = <<>>
            /\ activities = [rider |-> <<>>, driver |-> <<>>]
            /\ notes = <<>>
            /\ done = <<>>
            /\ ret = List(<<>>)
            /\ dres = NoCall
            /\ nord = 0
            /\ older = {}
            /\ cres = NoResult
            /\ held = {}
            /\ pc = "load"

SpecPair == InitPair /\ [][Next]_vars

-----------------------------------------------------------------------------
(* The Dispatcher driven directly, as its doctests do: any sequence of     *)
(* request_driver, request_rider and cancel_ride calls on pools of drivers *)
(* and riders that already exist.                                          *)

InitUnit ==
    \E d0 \in [DriverIds -> DriverSeeds], r0 \in [RiderIds -> Locs] :
        /\ drv = [d \in DriverIds |-> Driver(d0[d].location, d0[d].speed)]
        /\ rdr = [r \in RiderIds |-> Rider(r0[r], Location(0, 0), 0)]
        /\ initial = <<>>
        /\ avail_dr = <<>>
        /\ wait_rd = <<>>
        /\ events = <<>>
        /\ activities = [rider |-> <<>>, driver |-> <<>>]
        /\ notes = <<>>
        /\ done = <<>>
        /\ ret = List(<<>>)
        /\ dres = NoCall
        /\ nord = 0
        /\ older = {}
        /\ cres = NoResult
        /\ held = {}
        /\ pc = "unit"

Dispatch(op, arg, d) ==
    /\ avail_dr' = d.avail_dr
    /\ wait_rd' = d.wait_rd
    /\ dres' = Call(op, arg, avail_dr, wait_rd, d.res)
    /\ older' = older_after(d.avail_dr, d.wait_rd)
    /\ UNCHANGED <<drv, rdr, events, initial, activities, notes, done, ret,
                   nord, cres, held, pc>>

\* a rider that is not on the waiting list requests a driver
CallRequestDriver ==
    /\ pc = "unit"
    /\ \E r \in RiderIds :
        /\ ~Contains(wait_rd, r)
        /\ Dispatch("request_driver", r, request_driver(avail_dr, wait_rd, r))

\* a driver that is not in the idle pool requests a rider
CallRequestRider ==
    /\ pc = "unit"
    /\ \E d \in DriverIds :
        /\ ~Contains(avail_dr, d)
        /\ Dispatch("request_rider", d, request_rider(avail_dr, wait_rd, d))

\* precondition of cancel_ride: the rider is on the waiting list
CallCancelRide ==
    /\ pc = "unit"
    /\ \E r \in RiderIds :
        /\ Contains(wait_rd, r)
        /\ Dispatch("cancel_ride", r, cancel_ride(avail_dr, wait_rd, r))

\* cancel_ride called against its precondition
CallCancelRideAbsent ==
    /\ pc = "unit"
    /\ \E r \in RiderIds :
        /\ ~Contains(wait_rd, r)
        /\ Dispatch("cancel_ride", r, cancel_ride(avail_dr, wait_rd, r))

NextUnit ==
    \/ CallRequestDriver
    \/ CallRequestRider
    \/ CallCancelRide
    \/ CallCancelRideAbsent

SpecUnit == InitUnit /\ [][NextUnit]_vars

-----------------------------------------------------------------------------
(* The containers driven directly, as their doctests do: any sequence of   *)
(* calls on one PriorityQueue of events (held in events) and one Queue of  *)
(* rider identifiers (held in wait_rd); nord counts the add calls.         *)

InitContainer ==
    /\ drv = <<>>
    /\ rdr = <<>>
    /\ initial = <<>>
    /\ avail_dr = <<>>
    /\ wait_rd = <<>>
    /\ events = <<>>
    /\ activities = [rider |-> <<>>, driver |-> <<>>]
    /\ notes = <<>>
    /\ done = <<>>
    /\ ret = List(<<>>)
    /\ dres = NoCall
    /\ nord = 0
    /\ older = {}
    /\ cres = NoResult
    /\ held = {}
    /\ pc = "container"

\* the item of held that was added first
Earliest(h) == CHOOSE p \in h : \A q \in h : p[1] <= q[1]

PQCall(op, arg, out) ==
    /\ pc = "container"
    /\ events' = out.items
    /\ cres' = Result("PriorityQueue", op, arg, out)
    /\ UNCHANGED <<drv, rdr, avail_dr, wait_rd, initial, activities, notes,
                   done, ret, dres, older, held, pc>>

QueueCall(op, arg, out) ==
    /\ pc = "container"
    /\ wait_rd' = out.items
    /\ cres' = Result("Queue", op, arg, out)
    /\ UNCHANGED <<drv, rdr, avail_dr, events, initial, activities, notes,
                   done, ret, dres, older, pc>>

\* an event is added; its ord field is the ordinal of the add call
CallPQAdd ==
    /\ nord < MaxAdds
    /\ \E t \in 0..MaxTime :
        LET item == [DriverRequest(t, DriverSeq[1]) EXCEPT !.ord = nord + 1]
        IN  PQCall("add", <<item>>, PQ_call_add(events, item))
    /\ nord' = nord + 1

CallPQRemove ==
    /\ \E err \in EmptyErrors :
        PQCall("remove", <<>>, PQ_call_remove(events, err))
    /\ nord' = nord

CallQueueAdd ==
    /\ nord < MaxAdds
    /\ \E r \in RiderIds :
        /\ QueueCall("add", <<r>>, Queue_call_add(wait_rd, r))
        /\ held' = held \cup {<<nord + 1, r>>}
    /\ nord' = nord + 1

CallQueueFirst ==
    /\ \E err \in EmptyErrors :
        QueueCall("first", <<>>, Queue_call_first(wait_rd, err))
    /\ UNCHANGED <<held, nord>>

CallQueueRemove ==
    /\ \E err \in EmptyErrors :
        QueueCall("remove", <<>>, Queue_call_remove(wait_rd, err))
    /\ held' = IF held = {} THEN held ELSE held \ {Earliest(held)}
    /\ nord' = nord

CallQueueLength ==
    /\ QueueCall("length", <<>>, Queue_call_length(wait_rd))
    /\ UNCHANGED <<held, nord>>

CallQueueSpclRemove ==
    /\ \E r \in RiderIds :
        /\ QueueCall("spcl_remove", <<r>>, Queue_call_spcl_remove(wait_rd, r))
        /\ held' = LET same == {p \in held : p[2] = r}
                   IN  IF same = {} THEN held ELSE held \ {Earliest(same)}
    /\ nord' = nord

NextContainer ==
    \/ CallPQAdd
    \/ CallPQRemove
    \/ CallQueueAdd
    \/ CallQueueFirst
    \/ CallQueueRemove
    \/ CallQueueLength
    \/ CallQueueSpclRemove

SpecContainer == InitContainer /\ [][NextContainer]_vars

-----------------------------------------------------------------------------
(* location.py called directly, as its doctests do.  A Python integer has  *)
(* no width and a Python float is a double with a significand of 53 bits,  *)
(* so manhattan_distance is also modelled on integers as wide as that      *)
(* significand: Wide(h, l) stands for h * 2^53 + l with a small l.         *)

Wide(h, l) == [hi |-> h, lo |-> l]

WideAdd(x, y) == Wide(x.hi + y.hi, x.lo + y.lo)
WideSub(x, y) == Wide(x.hi - y.hi, x.lo - y.lo)
WideIsNeg(x) == x.hi < 0 \/ (x.hi = 0 /\ x.lo < 0)
WideAbs(x) == IF WideIsNeg(x) THEN Wide(0 - x.hi, 0 - x.lo) ELSE x

\* the integers x for which (x ** 2) ** 0.5 does not depend on how the C
\* library rounds pow: x ** 2 is below 2^53, or it is the power of two 2^106,
\* so the square is a double and its root |x| is a double as well
PowExact(x) == x.hi = 0 \/ (x.hi \in {-1, 1} /\ x.lo = 0)

\* (x ** 2) ** 0.5 for such an x: the float |x|
SqrtOfSquare_wide(x) == WideAbs(x)

\* x + y for two floats of integral value with 0 <= x + y <= 2^54: the sum
\* is exact up to 2^53; above, doubles are the even integers, and an odd sum
\* goes to the neighbour whose significand is even, a multiple of four
FloatAdd(x, y) ==
    LET s == WideAdd(x, y)
    IN  IF s.hi = 0 \/ (s.hi = 1 /\ s.lo <= 0) THEN s
        ELSE IF s.lo % 2 = 0 THEN s
        ELSE IF (s.lo + 1) % 4 = 0 THEN Wide(s.hi, s.lo + 1)
        ELSE Wide(s.hi, s.lo - 1)

\* int(...) of a float of integral value is that value
manhattan_distance_wide(origin, destination) ==
    FloatAdd(SqrtOfSquare_wide(WideSub(destination.row, origin.row)),
             SqrtOfSquare_wide(WideSub(destination.column, origin.column)))

\* coordinates around 0 and around 2^53
Coords == {Wide(h, l) : h \in {0, 1}, l \in (0 - MaxCoord)..MaxCoord}

Grid == {Location(r, c) : r \in Coords, c \in Coords}

InitLocation ==
    /\ drv = <<>>
    /\ rdr = <<>>
    /\ initial = <<>>
    /\ avail_dr = <<>>
    /\ wait_rd = <<>>
    /\ events = <<>>
    /\ activities = [rider |-> <<>>, driver |-> <<>>]
    /\ notes = <<>>
    /\ done = <<>>
    /\ ret = List(<<>>)
    /\ dres = NoCall
    /\ nord = 0
    /\ older = {}
    /\ cres = NoResult
    /\ held = {}
    /\ pc = "location"

CallManhattanDistance ==
    /\ pc = "location"
    /\ \E a \in Grid, b \in Grid :
        /\ PowExact(WideSub(b.row, a.row))
        /\ PowExact(WideSub(b.column, a.column))
        /\ cres' = Result("location", "manhattan_distance", <<a, b>>,
                          Return(<<>>, <<manhattan_distance_wide(a, b)>>))
    /\ UNCHANGED <<drv, rdr, avail_dr, wait_rd, events, initial, activities,
                   notes, done, ret, dres, nord, older, held, pc>>

NextLocation == CallManhattanDistance

SpecLocation == InitLocation /\ [][NextLocation]_vars

-----------------------------------------------------------------------------
(* Properties *)

\* event a goes before event b: smaller timestamp, or equal timestamps and
\* inserted into the event queue earlier
Before(a, b) ==
    \/ a.timestamp < b.timestamp
    \/ a.timestamp = b.timestamp /\ a.ord < b.ord

\* the sequence s without its i-th element
Without(s, i) == SubSeq(s, 1, i - 1) \o SubSeq(s, i + 1, Len(s))

IndexOf(s, x) == CHOOSE i \in 1..Len(s) : s[i] = x

\* C1: of two events that are in the event queue at the same time, the one
\* with the smaller timestamp is executed first, and of two with equal
\* timestamps the one inserted earlier is executed first, whatever their
\* kinds.  An event was in the queue when done[i] ran iff it had been
\* inserted by then (ord <= done[i].seen) and had not run yet.
C1_ExecutionOrder ==
    /\ \A i, j \in 1..Len(done) :
          (i < j /\ done[j].ev.ord <= done[i].seen)
              => Before(done[i].ev, done[j].ev)
    /\ \A i \in 1..Len(done), k \in 1..Len(events) :
          events[k].ord <= done[i].seen => Before(done[i].ev, events[k])

\* two events of different kinds with equal timestamps were in the queue
\* together and both have run, and an event inserted later than another has
\* run before it
C1_Witness ==
    /\ \E i, j \in 1..Len(done) :
          /\ i < j
          /\ done[j].ev.ord <= done[i].seen
          /\ done[i].ev.timestamp = done[j].ev.timestamp
          /\ done[i].ev.kind # done[j].ev.kind
    /\ \E i, j \in 1..Len(done) :
          /\ i < j
          /\ done[j].ev.ord < done[i].ev.ord

travel_time(d, r) == get_travel_time(drv[d], rdr[r].origin)

\* C2: request_driver with two or more idle drivers returns a driver of
\* minimal travel time to the rider's origin, the one that joined the idle
\* pool first among those of minimal travel time; that driver alone leaves
\* the pool, the others keep their order, and the rider is not enqueued.
C2_NearestDriver ==
    [][(dres'.op = "request_driver" /\ Len(avail_dr) >= 2) =>
        LET w == dres'.res
            r == dres'.arg
        IN  /\ w \in Range(avail_dr)
            /\ \A d \in Range(avail_dr) : travel_time(w, r) <= travel_time(d, r)
            /\ \A d \in Range(avail_dr) \ {w} :
                  travel_time(d, r) = travel_time(w, r) => <<w, d>> \in older
            /\ avail_dr' = Without(avail_dr, IndexOf(avail_dr, w))
            /\ ~Contains(avail_dr', w)
            /\ wait_rd' = wait_rd
            /\ ~Contains(wait_rd', r)]_vars

\* three idle drivers, the winner is not at the front of the pool and ties
\* on travel time with a driver behind it
C2_Witness ==
    /\ dres.op = "request_driver"
    /\ Len(dres.avail_dr) = 3
    /\ dres.res = dres.avail_dr[2]
    /\ travel_time(dres.avail_dr[3], dres.arg) = travel_time(dres.res, dres.arg)
    /\ travel_time(dres.avail_dr[1], dres.arg) > travel_time(dres.res, dres.arg)

\* C3: request_driver with an empty idle pool puts the rider at the back of
\* the waiting list and returns none; with exactly one idle driver it
\* removes and returns that driver and does not enqueue the rider.
C3_NoneOrOnlyDriver ==
    [][dres'.op = "request_driver" =>
        /\ Len(avail_dr) = 0 =>
              /\ dres'.res = None
              /\ avail_dr' = <<>>
              /\ wait_rd' = wait_rd \o <<dres'.arg>>
        /\ Len(avail_dr) = 1 =>
              /\ dres'.res = avail_dr[1]
              /\ avail_dr' = <<>>
              /\ wait_rd' = wait_rd
              /\ ~Contains(wait_rd', dres'.arg)]_vars

\* the only idle driver, two time units away, has been returned
C3_Witness ==
    /\ dres.op = "request_driver"
    /\ Len(dres.avail_dr) = 1
    /\ dres.res = dres.avail_dr[1]
    /\ travel_time(dres.res, dres.arg) >= 2

\* C4: request_rider with an empty waiting list puts the driver at the back
\* of the idle pool and returns none; otherwise it removes and returns the
\* rider that joined the waiting list first, the others keep their order,
\* and the driver is not added to the idle pool.
C4_LongestWaitingRider ==
    [][dres'.op = "request_rider" =>
        /\ Len(wait_rd) = 0 =>
              /\ dres'.res = None
              /\ avail_dr' = avail_dr \o <<dres'.arg>>
              /\ wait_rd' = <<>>
        /\ Len(wait_rd) > 0 =>
              /\ dres'.res \in Range(wait_rd)
              /\ \A x \in Range(wait_rd) \ {dres'.res} :
                    <<dres'.res, x>> \in older
              /\ wait_rd' = Without(wait_rd, IndexOf(wait_rd, dres'.res))
              /\ avail_dr' = avail_dr
              /\ ~Contains(avail_dr', dres'.arg)]_vars

\* a rider has been taken from a waiting list that held two riders
C4_Witness ==
    /\ dres.op = "request_rider"
    /\ Len(dres.wait_rd) = 2
    /\ dres.res # None
    /\ Len(wait_rd) = 1

\* the step is an iteration of the engine loop that executes an event of
\* the given kind (the first event of the queue before the step)
Executes(kind) == done' # done /\ Head(events).kind = kind

\* the events of the queue q that name driver d
EventsOfDriver(q, d) == {i \in 1..Len(q) : q[i].driver = d}

\* the events of the queue q that were not in the queue p
NewEvents(p, q) ==
    {q[i] : i \in 1..Len(q)} \ {p[i] : i \in 1..Len(p)}

Last(s) == s[Len(s)]

\* C5: a rider's status changes only from Waiting, and only to Cancelled or
\* Satisfied; a Satisfied or Cancelled rider keeps its status in every step
\* (so each rider's status changes at most once).
C5_StatusChangesOnce ==
    [][\A r \in DOMAIN rdr :
          rdr'[r].status # rdr[r].status =>
              /\ rdr[r].status = WAITING
              /\ rdr'[r].status \in {CANCELLED, SATISFIED}]_vars

\* the Cancellation of a rider has run after the rider's Pickup and the
\* rider is Satisfied, and the Pickup of another rider has run after that
\* rider's Cancellation and the rider is Cancelled
C5_Witness ==
    /\ \E i, j \in 1..Len(done) :
          /\ i < j
          /\ done[i].ev.kind = "Pickup"
          /\ done[j].ev.kind = "Cancellation"
          /\ done[i].ev.rider = done[j].ev.rider
          /\ rdr[done[i].ev.rider].status = SATISFIED
    /\ \E i, j \in 1..Len(done) :
          /\ i < j
          /\ done[i].ev.kind = "Cancellation"
          /\ done[j].ev.kind = "Pickup"
          /\ done[i].ev.rider = done[j].ev.rider
          /\ rdr[done[i].ev.rider].status = CANCELLED

\* C6: executing a Cancellation records one (Rider, Cancel) notification
\* for its rider, whatever the rider's status; a Waiting rider becomes
\* Cancelled, any other status stays (Satisfied stays Satisfied); no driver
\* changes, the idle pool does not change and no event is scheduled.
C6_CancellationEffect ==
    [][Executes("Cancellation") =>
        LET ev == Head(events)
            r == ev.rider
        IN  /\ Len(notes') = Len(notes) + 1
            /\ SubSeq(notes', 1, Len(notes)) = notes
            /\ Last(notes').category = RIDER
            /\ Last(notes').description = CANCEL
            /\ Last(notes').id = r
            /\ Last(notes').time = ev.timestamp
            /\ Len(activities'.rider[r]) = Len(activities.rider[r]) + 1
            /\ Last(activities'.rider[r]).description = CANCEL
            /\ rdr[r].status = WAITING => rdr'[r].status = CANCELLED
            /\ rdr[r].status # WAITING => rdr'[r].status = rdr[r].status
            /\ \A x \in DOMAIN rdr \ {r} : rdr'[x] = rdr[x]
            /\ drv' = drv
            /\ avail_dr' = avail_dr
            /\ events' = Tail(events)
            /\ nord' = nord]_vars

\* the last event executed is the Cancellation of a rider that had been
\* picked up, and the rider is Satisfied
C6_Witness ==
    /\ done # <<>>
    /\ Last(done).ev.kind = "Cancellation"
    /\ rdr[Last(done).ev.rider].status = SATISFIED
    /\ Last(notes).description = CANCEL

\* C7: a Pickup at time t whose rider is Cancelled schedules exactly one
\* event, a DriverRequest for the same driver at t, and no Dropoff, and the
\* rider stays Cancelled; when that DriverRequest runs, the driver ends up
\* in the idle pool or with a pending Pickup of another rider.
C7_StoodUpDriver ==
    [][/\ (Executes("Pickup") /\ rdr[Head(events).rider].status = CANCELLED) =>
            LET ev == Head(events)
            IN  /\ ret' = List(<<DriverRequest(ev.timestamp, ev.driver)>>)
                /\ Len(events') = Len(events)
                /\ NewEvents(events, events')
                     = {[DriverRequest(ev.timestamp, ev.driver)
                            EXCEPT !.ord = nord + 1]}
                /\ \A i \in 1..Len(events') : events'[i].kind = "Dropoff"
                        => events'[i].driver # ev.driver
                /\ rdr'[ev.rider].status = CANCELLED
       /\ \A i \in 1..Len(done) :
            (/\ Executes("DriverRequest")
             /\ done[i].ev.kind = "Pickup"
             /\ done[i].seen + 1 = Head(events).ord) =>
                LET d == Head(events).driver
                IN  \/ /\ Contains(avail_dr', d)
                       /\ EventsOfDriver(events', d) = {}
                    \/ /\ ~Contains(avail_dr', d)
                       /\ \E k \in 1..Len(events') :
                            /\ EventsOfDriver(events', d) = {k}
                            /\ events'[k].kind = "Pickup"
                            /\ events'[k].rider # done[i].ev.rider]_vars

\* a driver whose rider had cancelled has issued the DriverRequest of its
\* Pickup and has been assigned to another rider
C7_Witness ==
    /\ Len(done) >= 2
    /\ done[Len(done) - 1].ev.kind = "Pickup"
    /\ rdr[done[Len(done) - 1].ev.rider].status = CANCELLED
    /\ Last(done).ev.kind = "DriverRequest"
    /\ Last(done).ev.driver = done[Len(done) - 1].ev.driver
    /\ Last(done).ev.timestamp = done[Len(done) - 1].ev.timestamp
    /\ dres.res # None

\* C8: every Pickup schedules exactly one event, a Dropoff when the rider
\* is Waiting and a DriverRequest otherwise; for a Waiting rider the rider
\* becomes Satisfied, the driver is at the rider's origin and heads for the
\* rider's destination, and the Dropoff is at
\* t + round(manhattan(origin, destination) / speed).
C8_PickupEffect ==
    [][Executes("Pickup") =>
        LET ev == Head(events)
            r == rdr[ev.rider]
        IN  /\ ~ret'.isNone
            /\ Len(ret'.evs) = 1
            /\ Len(events') = Len(events)
            /\ r.status = WAITING =>
                  /\ ret'.evs[1] =
                        Dropoff(ev.timestamp
                                  + PyRound(manhattan_distance(r.origin,
                                                               r.destination),
                                            drv[ev.driver].speed),
                                ev.rider, ev.driver)
                  /\ rdr'[ev.rider].status = SATISFIED
                  /\ drv'[ev.driver].location = r.origin
                  /\ drv'[ev.driver].destination = r.destination
            /\ r.status # WAITING =>
                  ret'.evs[1] = DriverRequest(ev.timestamp, ev.driver)]_vars

\* the last event executed is the Pickup of a Waiting rider by a driver
\* that came from elsewhere, with a ride that takes time
C8_Witness ==
    /\ done # <<>>
    /\ Last(done).ev.kind = "Pickup"
    /\ rdr[Last(done).ev.rider].status = SATISFIED
    /\ ret.evs[1].kind = "Dropoff"
    /\ ret.evs[1].timestamp > Last(done).ev.timestamp
    /\ \E n \in Range(notes) :
          /\ n.category = DRIVER
          /\ n.description = REQUEST
          /\ n.id = Last(done).ev.driver
          /\ n.location # rdr[Last(done).ev.rider].origin

\* C9: a RiderRequest at t schedules exactly one Cancellation of its rider,
\* at t + patience; it schedules a Pickup iff the dispatcher returned a
\* driver, at t + the travel time from that driver's location to the
\* rider's origin, and then the driver is not idle and heads for the origin;
\* with no driver the rider is on the waiting list.
C9_RiderRequestEffect ==
    [][Executes("RiderRequest") =>
        LET ev == Head(events)
            r == rdr[ev.rider]
            d == dres'.res
            cancels == {i \in 1..Len(ret'.evs) :
                            ret'.evs[i].kind = "Cancellation"}
            pickups == {i \in 1..Len(ret'.evs) : ret'.evs[i].kind = "Pickup"}
        IN  /\ dres'.op = "request_driver"
            /\ dres'.arg = ev.rider
            /\ Cardinality(cancels) = 1
            /\ \A i \in cancels :
                  ret'.evs[i] = Cancellation(ev.timestamp + r.patience, ev.rider)
            /\ Len(ret'.evs) = Cardinality(cancels) + Cardinality(pickups)
            /\ Len(events') = Len(events) - 1 + Len(ret'.evs)
            /\ d # None =>
                  /\ Cardinality(pickups) = 1
                  /\ \A i \in pickups :
                        ret'.evs[i] =
                            Pickup(ev.timestamp
                                     + PyRound(manhattan_distance(drv[d].location,
                                                                  r.origin),
                                               drv[d].speed),
                                   ev.rider, d)
                  /\ drv'[d].is_idle = FALSE
                  /\ drv'[d].destination = r.origin
                  /\ ~Contains(wait_rd', ev.rider)
            /\ d = None =>
                  /\ pickups = {}
                  /\ Contains(wait_rd', ev.rider)
                  /\ drv' = drv]_vars

\* the last event executed is a RiderRequest that was given a driver who
\* needs time to arrive, for a rider with some patience
C9_Witness ==
    /\ done # <<>>
    /\ Last(done).ev.kind = "RiderRequest"
    /\ dres.res # None
    /\ Len(ret.evs) = 2
    /\ ret.evs[1].timestamp > Last(done).ev.timestamp
    /\ ret.evs[2].timestamp > Last(done).ev.timestamp

\* C10: a DriverRequest at t with a non-empty waiting list removes the
\* front rider, sends the driver to that rider's origin and schedules
\* exactly one Pickup at t + travel time; with an empty waiting list the
\* driver joins the idle pool, its fields do not change and no event is
\* scheduled.
C10_DriverRequestEffect ==
    [][Executes("DriverRequest") =>
        LET ev == Head(events)
            d == ev.driver
        IN  /\ Len(wait_rd) > 0 =>
                  LET r == wait_rd[1]
                  IN  /\ wait_rd' = Tail(wait_rd)
                      /\ avail_dr' = avail_dr
                      /\ drv'[d].is_idle = FALSE
                      /\ drv'[d].destination = rdr[r].origin
                      /\ drv'[d].location = drv[d].location
                      /\ ret' = List(<<Pickup(
                            ev.timestamp
                              + PyRound(manhattan_distance(drv[d].location,
                                                           rdr[r].origin),
                                        drv[d].speed),
                            r, d)>>)
                      /\ Len(events') = Len(events)
            /\ Len(wait_rd) = 0 =>
                  /\ avail_dr' = Append(avail_dr, d)
                  /\ wait_rd' = <<>>
                  /\ drv' = drv
                  /\ ret' = List(<<>>)
                  /\ events' = Tail(events)]_vars

\* the last event executed is a DriverRequest that found a rider waiting
\* some distance away
C10_Witness ==
    /\ done # <<>>
    /\ Last(done).ev.kind = "DriverRequest"
    /\ dres.res # None
    /\ Len(ret.evs) = 1
    /\ ret.evs[1].kind = "Pickup"
    /\ ret.evs[1].timestamp > Last(done).ev.timestamp

\* C11: a Dropoff at t moves the driver to the destination it was driving
\* to, which is the rider's destination, clears the driver's destination,
\* sets it idle and schedules exactly one event, a DriverRequest for that
\* driver at t; no rider and neither pool changes.
C11_DropoffEffect ==
    [][Executes("Dropoff") =>
        LET ev == Head(events)
            d == ev.driver
        IN  /\ drv[d].destination = rdr[ev.rider].destination
            /\ drv'[d].location = drv[d].destination
            /\ drv'[d].destination = NoLoc
            /\ drv'[d].is_idle = TRUE
            /\ drv'[d].speed = drv[d].speed
            /\ \A x \in DOMAIN drv \ {d} : drv'[x] = drv[x]
            /\ ret' = List(<<DriverRequest(ev.timestamp, d)>>)
            /\ Len(events') = Len(events)
            /\ NewEvents(events, events')
                 = {[DriverRequest(ev.timestamp, d) EXCEPT !.ord = nord + 1]}
            /\ rdr' = rdr
            /\ avail_dr' = avail_dr
            /\ wait_rd' = wait_rd]_vars

\* the last event executed is a Dropoff after a ride that moved the driver
C11_Witness ==
    /\ done # <<>>
    /\ Last(done).ev.kind = "Dropoff"
    /\ drv[Last(done).ev.driver].location = rdr[Last(done).ev.rider].destination
    /\ rdr[Last(done).ev.rider].origin # rdr[Last(done).ev.rider].destination
    /\ drv[Last(done).ev.driver].destination = NoLoc

\* C12: the do() of every event kind returns a list of events, and that of
\* a Cancellation returns the empty list.
C12_DoReturnsList ==
    done # <<>> =>
        /\ ~ret.isNone
        /\ Last(done).ev.kind = "Cancellation" => ret = List(<<>>)

\* a rider has requested once its RiderRequest has been executed
Requested(r) ==
    \E i \in 1..Len(done) :
        done[i].ev.kind = "RiderRequest" /\ done[i].ev.rider = r

\* a driver is committed to rider r once a Pickup of r has been scheduled
Committed(r) ==
    \/ \E i \in 1..Len(done) :
          done[i].ev.kind = "Pickup" /\ done[i].ev.rider = r
    \/ \E i \in 1..Len(events) :
          events[i].kind = "Pickup" /\ events[i].rider = r

\* C13: after every event execution a rider that has requested is on the
\* waiting list iff its status is Waiting and no Pickup has been scheduled
\* for it; a Cancelled rider is not on the waiting list.
C13_WaitingListMembership ==
    \A r \in DOMAIN rdr :
        Requested(r) =>
            (Contains(wait_rd, r)
                <=> (rdr[r].status = WAITING /\ ~Committed(r)))

\* the driver has run at least one DriverRequest
Registered(d) ==
    \E i \in 1..Len(done) :
        done[i].ev.kind = "DriverRequest" /\ done[i].ev.driver = d

PendingKinds(d) == {events[i].kind : i \in EventsOfDriver(events, d)}

\* C14 as stated: a driver that has issued a DriverRequest is in the idle
\* pool iff its idle flag is true, it has no destination and no Pickup or
\* Dropoff is pending for it.
C14_IdlePoolMembership_Original ==
    \A d \in DOMAIN drv :
        Registered(d) =>
            (Contains(avail_dr, d)
                <=> /\ drv[d].is_idle
                    /\ drv[d].destination = NoLoc
                    /\ PendingKinds(d) \cap {"Pickup", "Dropoff"} = {})

\* C14 as amended: a driver that has run a DriverRequest is in the idle
\* pool iff its idle flag is true, it has no destination and no event
\* (DriverRequest, Pickup or Dropoff) is pending for it.
C14_IdlePoolMembership ==
    \A d \in DOMAIN drv :
        Registered(d) =>
            (Contains(avail_dr, d)
                <=> /\ drv[d].is_idle
                    /\ drv[d].destination = NoLoc
                    /\ PendingKinds(d) = {})

\* a driver has just dropped a rider off: it is idle with no destination,
\* its DriverRequest is pending and it is not in the idle pool; another
\* driver sits in the idle pool
C14_Witness ==
    /\ done # <<>>
    /\ Last(done).ev.kind = "Dropoff"
    /\ Registered(Last(done).ev.driver)
    /\ drv[Last(done).ev.driver].is_idle
    /\ PendingKinds(Last(done).ev.driver) = {"DriverRequest"}
    /\ ~Contains(avail_dr, Last(done).ev.driver)
    /\ avail_dr # <<>>

\* the run is over: the event queue has been emptied
Finished == pc = "run" /\ PQ_is_empty(events)

KindsDone == [i \in 1..Len(done) |-> done[i].ev.kind]

\* the driver registered before the rider asked, and the rider's patience
\* is at least the travel time from the place the driver registered at
\* (the location of its first notification) to the rider's origin
PairCycle(d, r) ==
    /\ Len(done) >= 2
    /\ done[1].ev.kind = "DriverRequest"
    /\ done[2].ev.kind = "RiderRequest"
    /\ rdr[r].patience
         >= get_travel_time(Driver(notes[1].location, drv[d].speed),
                            rdr[r].origin)

\* C16: with one driver and one rider, the driver registered first and the
\* rider's patience at least the pickup travel time, the run to an empty
\* event queue executes DriverRequest, RiderRequest, Pickup, Dropoff, the
\* driver's second DriverRequest and the Cancellation, and ends with the
\* driver alone in the idle pool, idle, without destination, at the rider's
\* destination, the waiting list empty and the rider Satisfied.
C16_RoundTrip ==
    LET d == DriverSeq[1]
        r == RiderSeq[1]
    IN  (Finished /\ PairCycle(d, r)) =>
            /\ Len(done) = 6
            /\ {KindsDone[i] : i \in 1..Len(done)}
                 = {"DriverRequest", "RiderRequest", "Pickup", "Dropoff",
                    "Cancellation"}
            /\ avail_dr = <<d>>
            /\ Queue_length(avail_dr) = 1
            /\ drv[d].is_idle
            /\ drv[d].destination = NoLoc
            /\ drv[d].location = rdr[r].destination
            /\ Queue_is_empty(wait_rd)
            /\ rdr[r].status = SATISFIED

\* a finished cycle in which the driver had to travel to the rider and the
\* rider's patience equalled the travel time
C16_Witness ==
    /\ Finished
    /\ PairCycle(DriverSeq[1], RiderSeq[1])
    /\ notes[1].location # rdr[RiderSeq[1]].origin
    /\ rdr[RiderSeq[1]].patience
         = get_travel_time(Driver(notes[1].location, drv[DriverSeq[1]].speed),
                           rdr[RiderSeq[1]].origin)
    /\ drv[DriverSeq[1]].location = rdr[RiderSeq[1]].destination

\* the kinds of event the loop has a step for
EventKinds ==
    {"RiderRequest", "DriverRequest", "Cancellation", "Pickup", "Dropoff"}

CountDone(kind) == Cardinality({i \in 1..Len(done) : done[i].ev.kind = kind})

\* a Pickup that found its rider Cancelled, the DriverRequest it caused and
\* the Pickup of another rider that this request led to
ReroutingChain ==
    \E i, j, k \in 1..Len(done) :
        /\ i < j /\ j < k
        /\ done[i].ev.kind = "Pickup"
        /\ done[j].ev.kind = "DriverRequest"
        /\ done[k].ev.kind = "Pickup"
        /\ done[j].ev.driver = done[i].ev.driver
        /\ done[k].ev.driver = done[i].ev.driver
        /\ done[k].ev.rider # done[i].ev.rider
        /\ rdr[done[i].ev.rider].status = CANCELLED

\* C17: the run terminates.  The loop can take a step whenever the event
\* queue is not empty, and the number of steps is bounded by the seeds: at
\* most one Pickup per rider, one DriverRequest per driver plus one per
\* Pickup, and at most five events per rider and one per driver in all; so
\* the queue is empty after at most that many steps.
C17_Termination ==
    /\ (pc = "run" /\ ~PQ_is_empty(events)) =>
           \E kind \in EventKinds : Running(kind)
    /\ CountDone("Pickup") <= Cardinality(DOMAIN rdr)
    /\ CountDone("DriverRequest")
         <= Cardinality(DOMAIN drv) + CountDone("Pickup")
    /\ Len(done) <= Cardinality(DOMAIN drv) + 5 * Cardinality(DOMAIN rdr)
    /\ Len(done) + Len(events) + Len(initial)
         <= Cardinality(DOMAIN drv) + 5 * Cardinality(DOMAIN rdr)

\* a finished run in which a driver was stood up and re-routed to another
\* rider
C17_Witness == Finished /\ ReroutingChain

\* a PriorityQueue call has just been made on the queue held in events
PQCalled(op) ==
    pc = "container" /\ cres'.cls = "PriorityQueue" /\ cres'.op = op

\* the items are in key order, items of equal key in the order of their adds
Sorted(items) ==
    \A i, j \in 1..Len(items) : i < j => Before(items[i], items[j])

\* C18: after every add and remove on a PriorityQueue the items are in
\* non-decreasing key order, equal keys in the order they were added; add
\* puts the new item after every held item that compares less than or
\* equal to it and before every other one, keeping the others as they
\* were; remove returns and deletes the first item, which is minimal and
\* the earliest added among the minimal ones.
C18_PriorityQueueOrder ==
    [][/\ (pc = "container" /\ cres'.cls = "PriorityQueue") => Sorted(events')
       /\ PQCalled("add") =>
            LET item == cres'.arg[1]
                k == IndexOf(events', item)
            IN  /\ Len(events') = Len(events) + 1
                /\ Without(events', k) = events
                /\ \A i \in 1..Len(events) :
                      Event_le(events[i], item) <=> i < k
       /\ (PQCalled("remove") /\ ~PQ_is_empty(events)) =>
            /\ cres'.err = ""
            /\ cres'.res = <<events[1]>>
            /\ events' = Without(events, 1)
            /\ \A i \in 2..Len(events) : Before(cres'.res[1], events[i])]_vars

\* the third item added went to the front and has been removed, and two
\* items of equal key are left in the order of their adds
C18_Witness ==
    /\ pc = "container"
    /\ cres.cls = "PriorityQueue"
    /\ cres.op = "remove"
    /\ cres.err = ""
    /\ cres.res[1].ord = 3
    /\ Len(events) = 2
    /\ events[1].timestamp = events[2].timestamp
    /\ events[1].ord < events[2].ord

\* a Queue call has just returned on the queue held in wait_rd
QueueReturned(op) ==
    pc = "container" /\ cres'.cls = "Queue" /\ cres'.op = op /\ cres'.err = ""

\* the values of held in the order of their adds
RECURSIVE SeqOf(_)
SeqOf(h) ==
    IF h = {} THEN <<>>
    ELSE <<Earliest(h)[2]>> \o SeqOf(h \ {Earliest(h)})

\* C19: the Queue holds its items in the order they were added: after each
\* call its list is the sequence of the items held, earliest add first; add
\* appends at the back, remove returns and deletes the earliest-added item,
\* first returns it and deletes nothing, length returns the number of items
\* held, and spcl_remove(item) deletes the earliest-added item equal to
\* item and leaves the others in their order.
C19_QueueIsSequence ==
    [][/\ (pc = "container" /\ cres'.cls = "Queue") => wait_rd' = SeqOf(held')
       /\ QueueReturned("add") =>
            /\ wait_rd' = Append(wait_rd, cres'.arg[1])
            /\ cres'.res = <<>>
       /\ QueueReturned("remove") =>
            /\ cres'.res = <<Earliest(held)[2]>>
            /\ wait_rd' = SeqOf(held \ {Earliest(held)})
       /\ QueueReturned("first") =>
            /\ cres'.res = <<Earliest(held)[2]>>
            /\ wait_rd' = wait_rd
       /\ QueueReturned("length") =>
            /\ cres'.res = <<Cardinality(held)>>
            /\ wait_rd' = wait_rd
       /\ QueueReturned("spcl_remove") =>
            LET same == {p \in held : p[2] = cres'.arg[1]}
            IN  /\ same # {}
                /\ wait_rd' = SeqOf(held \ {Earliest(same)})]_vars

\* spcl_remove has deleted the first of two equal items that had another
\* item between them
C19_Witness ==
    /\ pc = "container"
    /\ cres.cls = "Queue"
    /\ cres.op = "spcl_remove"
    /\ cres.err = ""
    /\ Len(wait_rd) = 2
    /\ wait_rd[1] # cres.arg[1]
    /\ wait_rd[2] = cres.arg[1]

\* remove has just been called on an empty PriorityQueue, or remove or
\* first on an empty Queue
CalledOnEmpty ==
    /\ pc = "container"
    /\ \/ cres'.cls = "PriorityQueue" /\ cres'.op = "remove"
          /\ PQ_is_empty(events)
       \/ cres'.cls = "Queue" /\ cres'.op \in {"remove", "first"}
          /\ Queue_is_empty(wait_rd)

\* nothing is returned and both containers are as they were
FailedCleanly ==
    /\ cres'.res = <<>>
    /\ PQ_is_empty(events') = PQ_is_empty(events)
    /\ Queue_is_empty(wait_rd') = Queue_is_empty(wait_rd)
    /\ UNCHANGED <<events, wait_rd, held, nord>>

\* C20 as stated: remove on an empty PriorityQueue and remove or first on
\* an empty Queue fail with an EmptyContainer error, return nothing and
\* leave the container empty and unchanged.
C20_EmptyContainerError_Original ==
    [][CalledOnEmpty =>
        (cres'.err = "EmptyContainer" /\ FailedCleanly)]_vars

\* C20 as amended: these calls fail with an AssertionError raised by the
\* assert on the precondition (with an IndexError from the list operation
\* when assert statements are compiled out), return nothing and leave the
\* container empty and unchanged.
C20_EmptyContainerError ==
    [][CalledOnEmpty =>
        (cres'.err \in {"AssertionError", "IndexError"} /\ FailedCleanly)]_vars

\* first has failed on a Queue that was used and emptied before
C20_Witness ==
    /\ pc = "container"
    /\ cres.cls = "Queue"
    /\ cres.op = "first"
    /\ cres.err = "AssertionError"
    /\ Queue_is_empty(wait_rd)
    /\ held = {}
    /\ nord > 0

\* n / s rounded to the nearest integer, an exact half to the even one
HalfEven(n, s) ==
    CHOOSE k \in 0..(n + 1) :
        LET twice == IF n >= k * s THEN 2 * (n - k * s) ELSE 2 * (k * s - n)
        IN  /\ twice <= s
            /\ twice = s => k % 2 = 0

\* the travel time of a driver with these fields from location a to b
Rounded(d, a, b) == HalfEven(manhattan_distance(a, b), d.speed)

\* the single event in the list returned by the last do()
Returned(kind) == CHOOSE e \in Range(ret'.evs) : e.kind = kind

\* C21: the travel time is manhattan(location, to) / speed rounded to the
\* nearest integer, exact halves to the even integer, at every call site:
\* request_driver picks a driver whose time so computed is minimal, the
\* Pickup is scheduled that time after the request that assigned the
\* driver (start_drive), and the Dropoff that time after the Pickup, from
\* the rider's origin to the rider's destination (start_ride).
C21_TravelTimeRounding ==
    [][/\ (Executes("RiderRequest") /\ dres'.res # None) =>
            LET ev == Head(events)
                to == rdr[ev.rider].origin
            IN  /\ \A o \in Range(avail_dr) :
                      Rounded(drv[dres'.res], drv[dres'.res].location, to)
                        <= Rounded(drv[o], drv[o].location, to)
                /\ Returned("Pickup").timestamp
                     = ev.timestamp
                         + Rounded(drv[dres'.res], drv[dres'.res].location, to)
       /\ (Executes("DriverRequest") /\ dres'.res # None) =>
            LET ev == Head(events)
            IN  Returned("Pickup").timestamp
                  = ev.timestamp
                      + Rounded(drv[ev.driver], drv[ev.driver].location,
                                rdr[dres'.res].origin)
       /\ (Executes("Pickup") /\ rdr[Head(events).rider].status = WAITING) =>
            LET ev == Head(events)
            IN  Returned("Dropoff").timestamp
                  = ev.timestamp
                      + Rounded(drv[ev.driver], rdr[ev.rider].origin,
                                rdr[ev.rider].destination)]_vars

\* a rider has just been given the nearer of two idle drivers, and that
\* driver's distance over its speed is an exact half
C21_Witness ==
    /\ done # <<>>
    /\ Last(done).ev.kind = "RiderRequest"
    /\ dres.res # None
    /\ Len(dres.avail_dr) >= 2
    /\ LET d == drv[dres.res]
           n == manhattan_distance(d.location, rdr[Last(done).ev.rider].origin)
       IN  2 * (n % d.speed) = d.speed

\* C22: cancel_ride(rider) with the rider on the waiting list returns
\* normally, removes that rider, keeps the other riders in their order and
\* leaves the idle pool as it was; with the rider absent it raises and
\* leaves both pools as they were.
C22_CancelRide ==
    [][(pc = "unit" /\ dres'.op = "cancel_ride") =>
        IF Contains(wait_rd, dres'.arg)
        THEN /\ dres'.res = None
             /\ wait_rd' = Without(wait_rd, IndexOf(wait_rd, dres'.arg))
             /\ ~Contains(wait_rd', dres'.arg)
             /\ avail_dr' = avail_dr
        ELSE /\ dres'.res = "ValueError"
             /\ wait_rd' = wait_rd
             /\ avail_dr' = avail_dr]_vars

\* the second of two waiting riders has cancelled and the first is still
\* waiting
C22_Witness ==
    /\ pc = "unit"
    /\ dres.op = "cancel_ride"
    /\ dres.res = None
    /\ Len(dres.wait_rd) = 2
    /\ dres.arg = dres.wait_rd[2]
    /\ wait_rd = <<dres.wait_rd[1]>>

\* the loop is about to start: every seed has been added, nothing has run
Loaded == pc = "run" /\ done = <<>>

DistinctTimes(q) ==
    \A i, j \in 1..Len(q) : i # j => q[i].timestamp # q[j].timestamp

\* C23: with pairwise distinct seed timestamps the state the loop starts
\* from does not depend on the order in which the seeds were added: the
\* event queue holds every seed, in increasing timestamp order whatever the
\* order of the adds, and the pools and activity logs are empty.  Every
\* step of the loop is a function of the state, so the run is the same.
C23_SeedOrderIndependence ==
    (Loaded /\ DistinctTimes(events)) =>
        /\ Len(events) = nord
        /\ {events[i].ord : i \in 1..Len(events)} = 1..nord
        /\ \A i, j \in 1..Len(events) :
              i < j => events[i].timestamp < events[j].timestamp
        /\ avail_dr = <<>>
        /\ wait_rd = <<>>
        /\ activities = [rider |-> <<>>, driver |-> <<>>]

\* the seed that was added second is the first of the queue
C23_Witness ==
    /\ Loaded
    /\ DistinctTimes(events)
    /\ Len(events) = 2
    /\ events[1].ord = 2
    /\ events[2].ord = 1

\* C24: a driver's is_idle flag is True exactly when the driver is idle: it
\* is False whenever a Pickup or a Dropoff is pending for the driver.
C24_IdleFlag ==
    \A d \in DOMAIN drv :
        drv[d].is_idle <=> PendingKinds(d) \cap {"Pickup", "Dropoff"} = {}

\* the driver d after arriving at its destination
Arrived(d) ==
    [location |-> d.destination, speed |-> d.speed, is_idle |-> TRUE,
     destination |-> NoLoc]

\* the driver d after setting off for the location to
SetOff(d, to) ==
    [location |-> d.location, speed |-> d.speed, is_idle |-> FALSE,
     destination |-> to]

\* C25: start_drive(to) sets the idle flag false and the destination to
\* `to`, leaves location and speed as they were and returns
\* get_travel_time(to), seen in both events that call it; end_drive (seen
\* in a Pickup of a Cancelled rider) and end_ride (seen in a Dropoff) move
\* the driver to its destination, clear the destination and set the idle
\* flag, and the two agree on every driver of the run.
C25_DriverTransitions ==
    [][/\ (Executes("RiderRequest") /\ dres'.res # None) =>
            LET ev == Head(events)
                d == dres'.res
            IN  /\ drv'[d] = SetOff(drv[d], rdr[ev.rider].origin)
                /\ Returned("Pickup").timestamp
                     = ev.timestamp
                         + get_travel_time(drv[d], rdr[ev.rider].origin)
       /\ (Executes("DriverRequest") /\ dres'.res # None) =>
            LET ev == Head(events)
                d == ev.driver
            IN  /\ drv'[d] = SetOff(drv[d], rdr[dres'.res].origin)
                /\ Returned("Pickup").timestamp
                     = ev.timestamp
                         + get_travel_time(drv[d], rdr[dres'.res].origin)
       /\ (Executes("Pickup") /\ rdr[Head(events).rider].status # WAITING) =>
            drv'[Head(events).driver] = Arrived(drv[Head(events).driver])
       /\ Executes("Dropoff") =>
            drv'[Head(events).driver] = Arrived(drv[Head(events).driver])
       /\ \A d \in DOMAIN drv :
            /\ end_drive(drv[d]) = Arrived(drv[d])
            /\ end_ride(drv[d]) = end_drive(drv[d])]_vars

\* a registering driver has just set off for a waiting rider that is
\* somewhere else
C25_Witness ==
    /\ done # <<>>
    /\ Last(done).ev.kind = "DriverRequest"
    /\ dres.res # None
    /\ ~drv[Last(done).ev.driver].is_idle
    /\ drv[Last(done).ev.driver].destination = rdr[dres.res].origin
    /\ drv[Last(done).ev.driver].location # rdr[dres.res].origin

\* the precondition of a queue method holds for the call u
PreconditionHolds(u) ==
    /\ u.op \in {"remove", "first"} => ~Queue_is_empty(u.items)
    /\ u.op = "spcl_remove" => Contains(u.items, u.arg)

\* C26: in a run no container precondition is violated: the loop removes
\* an event only from a queue that is not empty, and every remove and
\* first the dispatcher calls finds its queue not empty and every
\* spcl_remove finds its item in the queue.
C26_ContainerPreconditions ==
    [][/\ done' # done => (pc = "run" /\ ~PQ_is_empty(events))
       /\ Executes("RiderRequest") =>
            LET uses == request_driver_calls(avail_dr, wait_rd,
                                             Head(events).rider)
            IN  \A i \in 1..Len(uses) : PreconditionHolds(uses[i])
       /\ Executes("DriverRequest") =>
            LET uses == request_rider_calls(avail_dr, wait_rd,
                                            Head(events).driver)
            IN  \A i \in 1..Len(uses) : PreconditionHolds(uses[i])]_vars

\* request_driver has taken a driver that was not at the front of a pool
\* of two or more
C26_Witness ==
    /\ done # <<>>
    /\ Last(done).ev.kind = "RiderRequest"
    /\ dres.op = "request_driver"
    /\ Len(dres.avail_dr) >= 2
    /\ dres.res # dres.avail_dr[1]
    /\ ~Contains(avail_dr, dres.res)

\* C27: whenever a Pickup or a Dropoff executes the driver's destination is
\* set: it is the rider's origin for a Pickup and the rider's destination
\* for a Dropoff; so when start_ride is called, after end_drive, the driver
\* is at the rider's origin.
C27_ActorPreconditions ==
    [][/\ Executes("Pickup") =>
            LET ev == Head(events)
            IN  /\ drv[ev.driver].destination # NoLoc
                /\ drv[ev.driver].destination = rdr[ev.rider].origin
                /\ rdr[ev.rider].status = WAITING =>
                      end_drive(drv[ev.driver]).location = rdr[ev.rider].origin
       /\ Executes("Dropoff") =>
            LET ev == Head(events)
            IN  /\ drv[ev.driver].destination # NoLoc
                /\ drv[ev.driver].destination = rdr[ev.rider].destination]_vars

\* a driver that had to travel has picked its rider up and is on its way to
\* the rider's destination
C27_Witness ==
    /\ done # <<>>
    /\ Last(done).ev.kind = "Pickup"
    /\ rdr[Last(done).ev.rider].status = SATISFIED
    /\ drv[Last(done).ev.driver].location = rdr[Last(done).ev.rider].origin
    /\ drv[Last(done).ev.driver].destination = rdr[Last(done).ev.rider].destination
    /\ \E i \in 1..Len(notes) :
          /\ notes[i].id = Last(done).ev.driver
          /\ notes[i].description = REQUEST
          /\ notes[i].location # rdr[Last(done).ev.rider].origin

\* the notify calls made by the step, in call order
NewNotes == SubSeq(notes', Len(notes) + 1, Len(notes'))

\* C28: each event makes its notify calls with the values the actors have
\* before the event changes them, in a fixed order: RiderRequest records
\* (Rider, Request) at the rider's origin; DriverRequest (Driver, Request)
\* at the driver's location; Cancellation (Rider, Cancel); Pickup (Driver,
\* Pickup) and then (Rider, Pickup), both at the rider's origin, whatever
\* the rider's status; Dropoff (Driver, Dropoff) at the rider's
\* destination.
C28_NotificationOrder ==
    [][/\ Executes("RiderRequest") =>
            LET ev == Head(events)
            IN  NewNotes = <<Note(ev.timestamp, RIDER, REQUEST, ev.rider,
                                  rdr[ev.rider].origin)>>
       /\ Executes("DriverRequest") =>
            LET ev == Head(events)
            IN  NewNotes = <<Note(ev.timestamp, DRIVER, REQUEST, ev.driver,
                                  drv[ev.driver].location)>>
       /\ Executes("Cancellation") =>
            LET ev == Head(events)
            IN  /\ Len(NewNotes) = 1
                /\ NewNotes[1].time = ev.timestamp
                /\ NewNotes[1].category = RIDER
                /\ NewNotes[1].description = CANCEL
                /\ NewNotes[1].id = ev.rider
       /\ Executes("Pickup") =>
            LET ev == Head(events)
            IN  /\ NewNotes = <<Note(ev.timestamp, DRIVER, PICKUP, ev.driver,
                                     rdr[ev.rider].origin),
                                Note(ev.timestamp, RIDER, PICKUP, ev.rider,
                                     rdr[ev.rider].origin)>>
                /\ NewNotes[1].location = drv[ev.driver].destination
       /\ Executes("Dropoff") =>
            LET ev == Head(events)
            IN  /\ NewNotes = <<Note(ev.timestamp, DRIVER, DROPOFF, ev.driver,
                                     rdr[ev.rider].destination)>>
                /\ NewNotes[1].location = drv[ev.driver].destination
                /\ NewNotes[1].location # drv'[ev.driver].destination]_vars

\* a driver has arrived at a rider that had cancelled and both Pickup
\* records were made, the driver's first
C28_Witness ==
    /\ done # <<>>
    /\ Last(done).ev.kind = "Pickup"
    /\ rdr[Last(done).ev.rider].status = CANCELLED
    /\ Len(notes) >= 2
    /\ notes[Len(notes) - 1].category = DRIVER
    /\ notes[Len(notes) - 1].description = PICKUP
    /\ Last(notes).category = RIDER
    /\ Last(notes).description = PICKUP
    /\ Last(notes).location = rdr[Last(done).ev.rider].origin

\* the log of actor id in the category cat (empty when it has none yet)
LogOf(acts, cat, id) ==
    IF id \in DOMAIN acts[cat] THEN acts[cat][id] ELSE <<>>

\* the records that the notify calls ns add to the log of id in cat
RecordsFor(ns, cat, id) ==
    LET Mine(n) == n.category = cat /\ n.id = id
        mine == SelectSeq(ns, Mine)
    IN  [i \in 1..Len(mine) |->
            Activity(mine[i].time, mine[i].description, mine[i].id,
                     mine[i].location)]

TimeOrdered(log) ==
    \A i, j \in 1..Len(log) : i < j => log[i].time <= log[j].time

\* C29: the activity logs are append-only and time-ordered: in every step
\* each log is the log it was followed by one record for each notify call
\* made for its category and actor, in call order, so no record is removed
\* or changed and no other log changes; and the timestamps of every log
\* are non-decreasing.
C29_ActivityLogs ==
    [][\A cat \in {RIDER, DRIVER}, id \in DriverIds \cup RiderIds :
          /\ LogOf(activities', cat, id)
               = LogOf(activities, cat, id) \o RecordsFor(NewNotes, cat, id)
          /\ TimeOrdered(LogOf(activities', cat, id))]_vars

\* a driver's log holds three records or more, the last later than the
\* first
C29_Witness ==
    \E d \in DOMAIN activities[DRIVER] :
        /\ Len(activities[DRIVER][d]) >= 3
        /\ activities[DRIVER][d][1].time
             < activities[DRIVER][d][Len(activities[DRIVER][d])].time

\* C30: each rider's log starts with a Request record, and its second
\* record, if any, is a Pickup or a Cancel whose time is not earlier than
\* the Request's.
C30_RiderLogShape ==
    \A r \in DOMAIN activities[RIDER] :
        LET log == activities[RIDER][r]
        IN  /\ Len(log) >= 1
            /\ log[1].description = REQUEST
            /\ Len(log) >= 2 =>
                  /\ log[2].description \in {PICKUP, CANCEL}
                  /\ log[2].time >= log[1].time

\* a rider was picked up later than it asked, and another cancelled
C30_Witness ==
    /\ \E r \in DOMAIN activities[RIDER] :
          /\ Len(activities[RIDER][r]) >= 2
          /\ activities[RIDER][r][2].description = PICKUP
          /\ activities[RIDER][r][2].time > activities[RIDER][r][1].time
    /\ \E r \in DOMAIN activities[RIDER] :
          /\ Len(activities[RIDER][r]) >= 2
          /\ activities[RIDER][r][2].description = CANCEL

\* C31: a Dropoff record is never the first record of a driver's log and
\* the record before it in that log is a Pickup record; when a Dropoff
\* executes, the last record of the driver's log is a Pickup located at
\* the origin of the rider being dropped off; and when the event queue is
\* empty the last record of every driver's log is a Request.
C31_DriverLogShape ==
    [][/\ Executes("Dropoff") =>
            LET ev == Head(events)
                log == LogOf(activities, DRIVER, ev.driver)
            IN  /\ Len(log) >= 1
                /\ Last(log).description = PICKUP
                /\ Last(log).location = rdr[ev.rider].origin
                /\ Last(LogOf(activities', DRIVER, ev.driver)).description
                     = DROPOFF
       /\ \A d \in DOMAIN activities'[DRIVER] :
            LET log == activities'[DRIVER][d]
            IN  /\ \A i \in 1..Len(log) :
                      log[i].description = DROPOFF =>
                          (i > 1 /\ log[i - 1].description = PICKUP)
                /\ (pc' = "run" /\ PQ_is_empty(events')) =>
                      Last(log).description = REQUEST]_vars

\* the run is over and a driver's log ends with Pickup, Dropoff, Request
C31_Witness ==
    /\ Finished
    /\ \E d \in DOMAIN activities[DRIVER] :
          LET log == activities[DRIVER][d]
          IN  /\ Len(log) >= 4
              /\ log[Len(log) - 2].description = PICKUP
              /\ log[Len(log) - 1].description = DROPOFF
              /\ log[Len(log)].description = REQUEST

\* C32: when a RiderRequest at time t is given a driver, the Pickup is
\* scheduled at t plus the least travel time to the rider's origin among
\* the drivers that were in the idle pool: none of them would have arrived
\* earlier, and one of them arrives exactly then.
C32_EarliestPickup ==
    [][(Executes("RiderRequest") /\ dres'.res # None) =>
        LET ev == Head(events)
            to == rdr[ev.rider].origin
            times == {get_travel_time(drv[o], to) : o \in Range(avail_dr)}
            pickup == Returned("Pickup")
        IN  /\ avail_dr # <<>>
            /\ pickup.timestamp - ev.timestamp \in times
            /\ \A t \in times : pickup.timestamp - ev.timestamp <= t
            /\ pickup.driver = dres'.res
            /\ pickup.rider = ev.rider]_vars

\* the driver given to the rider was behind a slower one in the pool
C32_Witness ==
    /\ done # <<>>
    /\ Last(done).ev.kind = "RiderRequest"
    /\ dres.op = "request_driver"
    /\ dres.res # None
    /\ Len(dres.avail_dr) >= 2
    /\ get_travel_time(drv[dres.res], rdr[dres.arg].origin)
         < get_travel_time(drv[dres.avail_dr[1]], rdr[dres.arg].origin)

\* C33: request_rider never returns a rider whose status is Cancelled, so
\* no DriverRequest sends a driver to a rider that has cancelled.
C33_OnlyWaitingAssigned ==
    [][(Executes("DriverRequest") /\ dres'.res # None) =>
        rdr[dres'.res].status = WAITING]_vars

\* C34: the idle pool and the waiting list are never both non-empty.
C34_PoolsExclusive == Queue_is_empty(avail_dr) \/ Queue_is_empty(wait_rd)

\* a driver has just taken the first of two riders on the waiting list
C34_Witness ==
    /\ done # <<>>
    /\ Last(done).ev.kind = "DriverRequest"
    /\ dres.res # None
    /\ Len(dres.wait_rd) = 2
    /\ Len(wait_rd) = 1
    /\ Queue_is_empty(avail_dr)

\* the events of kind kind about rider r, executed or still in the queue
EventsOfRider(kind, r) ==
    {done[i].ev : i \in {j \in 1..Len(done) :
                           done[j].ev.kind = kind /\ done[j].ev.rider = r}}
      \cup {events[i] : i \in {j \in 1..Len(events) :
                                 events[j].kind = kind /\ events[j].rider = r}}

\* C35: each driver has at most one event in the event queue and none
\* while it is in the idle pool; each rider is the subject of at most one
\* Pickup and at most one Dropoff over the whole run, and all of them name
\* the same driver.
C35_OnePendingEvent ==
    /\ \A d \in DOMAIN drv :
          /\ Cardinality(EventsOfDriver(events, d)) <= 1
          /\ Contains(avail_dr, d) => EventsOfDriver(events, d) = {}
    /\ \A r \in DOMAIN rdr :
          /\ Cardinality(EventsOfRider("Pickup", r)) <= 1
          /\ Cardinality(EventsOfRider("Dropoff", r)) <= 1
          /\ Cardinality({e.driver : e \in EventsOfRider("Pickup", r)
                                        \cup EventsOfRider("Dropoff", r)}) <= 1

\* one driver is carrying a rider, with its Dropoff pending, while another
\* driver sits in the idle pool
C35_Witness ==
    /\ done # <<>>
    /\ Last(done).ev.kind = "Pickup"
    /\ EventsOfRider("Dropoff", Last(done).ev.rider) # {}
    /\ Cardinality(EventsOfDriver(events, Last(done).ev.driver)) = 1
    /\ avail_dr # <<>>

NoDuplicates(items) ==
    \A i, j \in 1..Len(items) : i # j => items[i] # items[j]

\* C36: every driver in the idle pool has its idle flag true and no
\* destination and is in the pool once; every rider on the waiting list is
\* there once.
C36_PoolMembers ==
    /\ \A i \in 1..Len(avail_dr) :
          /\ drv[avail_dr[i]].is_idle
          /\ drv[avail_dr[i]].destination = NoLoc
    /\ NoDuplicates(avail_dr)
    /\ NoDuplicates(wait_rd)

\* two drivers are in the idle pool, one of them back from a Pickup
C36_Witness ==
    /\ Len(avail_dr) >= 2
    /\ \E i \in 1..Len(avail_dr) :
          /\ Len(LogOf(activities, DRIVER, avail_dr[i])) >= 3
          /\ drv[avail_dr[i]].is_idle

\* C37: when the event queue has drained no rider that requested is still
\* Waiting, and every driver that requested is in the idle pool, with its
\* idle flag true and no destination.
C37_Quiescence ==
    Finished =>
        /\ \A r \in DOMAIN rdr :
              Requested(r) => rdr[r].status \in {SATISFIED, CANCELLED}
        /\ \A d \in DOMAIN drv :
              Registered(d) =>
                  /\ Contains(avail_dr, d)
                  /\ drv[d].is_idle
                  /\ drv[d].destination = NoLoc

\* a run has drained with one rider Satisfied and another Cancelled
C37_Witness ==
    /\ Finished
    /\ \E r \in DOMAIN rdr : Requested(r) /\ rdr[r].status = SATISFIED
    /\ \E r \in DOMAIN rdr : Requested(r) /\ rdr[r].status = CANCELLED
    /\ \E d \in DOMAIN drv : Registered(d) /\ Contains(avail_dr, d)

\* C38: simulated time never goes backwards: every event a do() returns
\* has a timestamp not smaller than that of the event that ran, and the
\* timestamps of the events executed so far are non-decreasing.
C38_TimeMonotone ==
    [][done' # done =>
        /\ \A e \in Range(ret'.evs) : e.timestamp >= Head(events).timestamp
        /\ \A i, j \in 1..Len(done') :
              i < j => done'[i].ev.timestamp <= done'[j].ev.timestamp]_vars

\* the last event ran later than the first and scheduled a later event
C38_Witness ==
    /\ done # <<>>
    /\ Last(done).ev.timestamp > done[1].ev.timestamp
    /\ \E e \in Range(ret.evs) : e.timestamp > Last(done).ev.timestamp

\* the kind of the executed event whose do() returned the event e
\* ("seed" for an event that was added before the loop started)
CreatorKind(e) ==
    LET before == {i \in 1..Len(done) : done[i].seen < e.ord}
    IN  IF before = {} THEN "seed"
        ELSE done[CHOOSE i \in before : \A j \in before : j <= i].ev.kind

\* the Pickup of rider r and its Cancellation are due at the same time
Race(p, c) ==
    /\ p.kind = "Pickup"
    /\ c.kind = "Cancellation"
    /\ p.rider = c.rider
    /\ p.timestamp = c.timestamp

\* C39: when the Pickup and the Cancellation of a rider have the same
\* timestamp: if the Pickup was returned by the rider's own RiderRequest it
\* was inserted first and runs first, while the Cancellation is still in
\* the queue, and the rider becomes and stays Satisfied; if it was returned
\* by a DriverRequest the Cancellation was inserted first and has already
\* run, the rider is and stays Cancelled and the Pickup returns a
\* DriverRequest of the driver at the same time.
C39_PickupCancellationRace ==
    [][/\ Executes("Pickup") =>
            LET p == Head(events)
            IN  \A c \in EventsOfRider("Cancellation", p.rider) :
                  Race(p, c) =>
                    IF CreatorKind(p) = "RiderRequest"
                    THEN /\ p.ord < c.ord
                         /\ c \in Range(events)
                         /\ rdr[p.rider].status = WAITING
                         /\ rdr'[p.rider].status = SATISFIED
                         /\ Returned("Dropoff").rider = p.rider
                    ELSE /\ CreatorKind(p) = "DriverRequest"
                         /\ c.ord < p.ord
                         /\ c \notin Range(events)
                         /\ rdr[p.rider].status = CANCELLED
                         /\ rdr'[p.rider].status = CANCELLED
                         /\ ret' = List(<<DriverRequest(p.timestamp, p.driver)>>)
       /\ Executes("Cancellation") =>
            LET c == Head(events)
            IN  \A p \in EventsOfRider("Pickup", c.rider) :
                  (Race(p, c) /\ CreatorKind(p) = "RiderRequest") =>
                      /\ p \notin Range(events)
                      /\ rdr[c.rider].status = SATISFIED
                      /\ rdr'[c.rider].status = SATISFIED]_vars

\* both races have been run: one rider won its race and is Satisfied,
\* another lost it and is Cancelled
C39_Witness ==
    /\ \E i, j \in 1..Len(done) :
          /\ i < j
          /\ Race(done[i].ev, done[j].ev)
          /\ CreatorKind(done[i].ev) = "RiderRequest"
          /\ rdr[done[i].ev.rider].status = SATISFIED
    /\ \E i, j \in 1..Len(done) :
          /\ j < i
          /\ Race(done[i].ev, done[j].ev)
          /\ CreatorKind(done[i].ev) = "DriverRequest"
          /\ rdr[done[i].ev.rider].status = CANCELLED

ManhattanCalled == pc = "location" /\ cres.op = "manhattan_distance"

\* C40: manhattan_distance(a, b) is |a.row - b.row| + |a.column - b.column|
\* for all integer locations; it is not negative, it is the same for (b, a),
\* and it is zero exactly when the rows are equal and the columns are equal.
C40_ManhattanDistance ==
    ManhattanCalled =>
        LET a == cres.arg[1]
            b == cres.arg[2]
            n == cres.res[1]
        IN  /\ n = WideAdd(WideAbs(WideSub(a.row, b.row)),
                           WideAbs(WideSub(a.column, b.column)))
            /\ ~WideIsNeg(n)
            /\ n = manhattan_distance_wide(b, a)
            /\ n = Wide(0, 0) <=> (a.row = b.row /\ a.column = b.column)

\* the same for the locations whose coordinates are around 0, where it
\* agrees with the distance the simulation computes on its grid
ManhattanDistanceNarrow ==
    (/\ ManhattanCalled
     /\ \A l \in {cres.arg[1], cres.arg[2]} : l.row.hi = 0 /\ l.column.hi = 0)
    =>  LET a == Location(cres.arg[1].row.lo, cres.arg[1].column.lo)
            b == Location(cres.arg[2].row.lo, cres.arg[2].column.lo)
            n == cres.res[1]
            Abs(x) == IF x < 0 THEN 0 - x ELSE x
        IN  /\ n = Wide(0, Abs(a.row - b.row) + Abs(a.column - b.column))
            /\ n.lo = manhattan_distance(a, b)
            /\ n.lo = manhattan_distance(b, a)
            /\ n.lo >= 0
            /\ n.lo = 0 <=> LocationEq(a, b)

\* every property of the distance except its value
ManhattanDistanceShape ==
    ManhattanCalled =>
        LET a == cres.arg[1]
            b == cres.arg[2]
            n == cres.res[1]
        IN  /\ ~WideIsNeg(n)
            /\ n = manhattan_distance_wide(b, a)
            /\ n = Wide(0, 0) <=> (a.row = b.row /\ a.column = b.column)
====
